---- MODULE Spec2Model ----
(***************************************************************************)
(* Terrain and resource generation of the strategic map grid              *)
(* (modules/interface_types/grids.py).  A grid is a coordinate_width x    *)
(* coordinate_height array of cells; generate_terrain paints it with      *)
(* terrain worms and a consensus pass, set_resources then draws a         *)
(* resource for every cell from its terrain's frequency list.             *)
(***************************************************************************)
EXTENDS Integers, Sequences, FiniteSets, TLC

VARIABLES
    coordinate_width,     \* grid.coordinate_width
    coordinate_height,    \* grid.coordinate_height
    is_abstract_grid,     \* grid.is_abstract_grid
    from_save,            \* grid.from_save
    enable_oceans,        \* constants.effect_manager.effect_active("enable_oceans")
    terrain_list,         \* constants.terrain_list
    terrain,              \* cell.terrain_handler.terrain, by cell coordinates
    resource,             \* cell.terrain_handler.resource, by cell coordinates
    terrain_features,     \* cell.terrain_handler.terrain_features, by cell coordinates
    pc,                   \* position of the running operation
    error,                \* exception that ended the running operation, or "none"
    area,                 \* generate_terrain: area
    num_worms,            \* generate_terrain: num_worms
    i,                    \* generate_terrain: iterations of the worm loop started
    min_len,              \* make_random_terrain_worm: min_len
    max_len,              \* make_random_terrain_worm: max_len
    possible_terrains,    \* make_random_terrain_worm: possible_terrains
    current_x,            \* make_random_terrain_worm: current_x
    current_y,            \* make_random_terrain_worm: current_y
    worm_length,          \* make_random_terrain_worm: worm_length
    worm_terrain,         \* make_random_terrain_worm: terrain
    counter,              \* make_random_terrain_worm: counter
    ret,                  \* where make_random_terrain_worm returns to
    worm_calls,           \* history: number of calls of make_random_terrain_worm
    path,                 \* history: cells set by the running worm, in order
    before,               \* history: terrain when the running worm / consensus step began
    cell_index,           \* position in get_flat_cell_list() of the next cell to visit
    shuffled,             \* history: random.sample order used for the last visited cell
    by_fallback,          \* history: the last visited cell took the random.choice branch
    resource_frequencies, \* configuration/resource_frequencies.json
    resource_list_dict,   \* set_resources: resource_list_dict
    terrain_number,       \* set_resources: terrain_number of the last visited cell
    grid_type,            \* grid.grid_type
    parameters,           \* cell.terrain_handler.parameters, by cell coordinates
    save_dicts,           \* cell.save_dict, by cell coordinates
    save_dict,            \* the dictionary to_save_dict returned
    saved,                \* history: the grid to_save_dict was called on
    features_before,      \* history: terrain_features when generate_terrain_features began
    allowed_places,       \* history: the (feature type, cell) pairs allow_place accepted
    call_args,            \* arguments of the running query
    call_result,          \* value the last query returned
    tdg_terrain_list,     \* TDG: global_manager.get('terrain_list')
    current_game_mode,    \* constants.current_game_mode
    mini_grids,           \* attached_grid.mini_grids: the mini grids of the grid
    sibling_index,        \* calibrate: position in attached_grid.mini_grids of the loop
    calibrate_calls,      \* history: nested calibrate calls made on each mini grid
    mini_before,          \* history: mini_grids when the running calibrate was called
    tiles,                \* the tiles of the grid and of its mini grids, by grid and cell
    amount_to_remove,     \* remove_excess_inventory: local
    amount_removed,       \* remove_excess_inventory: local
    commodity_types,      \* remove_excess_inventory: local (the held commodities)
    tiles_before,         \* history: tiles when the running tile method was called
    worker,               \* the worker: in_vehicle, in_group, x, y, movement_points
    vehicle,              \* the vehicle: crew, end_turn_destination, x, y, images
    group,                \* the group the worker can join
    player_turn_queue,    \* status.player_turn_queue
    contained_mobs,       \* contained_mobs of the cells the vehicle's images occupy
    image_index,          \* crew_vehicle: position in moved_mob.images of the loop
    contained_before,     \* history: contained_mobs when crew_vehicle was called
    in_protocol,          \* history: every call so far was made in a state its callers check
    worker_types,         \* status.worker_types[t].number
    mob_list,             \* the workers created and not removed
    recruit_log           \* history: creations and on_recruit calls

gridVars == <<coordinate_width, coordinate_height, is_abstract_grid, from_save,
              enable_oceans, terrain_list, terrain, resource, terrain_features>>
genVars == <<area, num_worms, i>>
wormVars == <<min_len, max_len, possible_terrains, current_x, current_y,
              worm_length, worm_terrain, counter, ret, worm_calls, path>>
passVars == <<cell_index, shuffled, by_fallback>>
resVars == <<resource_frequencies, resource_list_dict, terrain_number>>
saveVars == <<grid_type, parameters, save_dicts, save_dict, saved>>
featVars == <<features_before, allowed_places>>
callVars == <<call_args, call_result, tdg_terrain_list>>
miniVars == <<current_game_mode, mini_grids, sibling_index, calibrate_calls, mini_before>>
tileVars == <<tiles, amount_to_remove, amount_removed, commodity_types, tiles_before>>
workerVars == <<worker, vehicle, group, player_turn_queue, contained_mobs, image_index,
                contained_before, in_protocol, worker_types, mob_list, recruit_log>>
actorVars == <<tileVars, workerVars>>
extVars == <<miniVars, actorVars>>
vars == <<gridVars, genVars, wormVars, passVars, resVars, saveVars, featVars, callVars,
          extVars, pc, error, before>>

----------------------------------------------------------------------------
(* Bounds of the model *)

\* largest coordinate_width * coordinate_height of a grid whose terrain is generated
MaxArea == 8
\* largest coordinate_width * coordinate_height of a grid a worm is called on directly
MaxWormArea == 6
\* largest min_len / max_len handed to a directly called worm
MaxLen == 3
\* largest coordinate_width of the grids whose worm loop alone is run
MaxNumWidth == 25
\* largest coordinate_height of the grids whose worm loop alone is run
MaxNumHeight == 4
\* largest coordinate_width * coordinate_height of a grid whose resources are set
MaxResArea == 2

----------------------------------------------------------------------------
(* Helpers *)

Range(s) == {s[k] : k \in 1..Len(s)}

\* the base content of constants.terrain_list
BaseTerrainList == <<"savannah", "swamp">>

Cells == (0..(coordinate_width - 1)) \X (0..(coordinate_height - 1))

\* number of cells get_flat_cell_list() yields
NumCells == coordinate_width * coordinate_height

\* the keys of status.terrain_feature_types
FeatureTypes == {"north pole", "south pole"}

\* get_flat_cell_list: chain of cell_list[x][y], x outer, y inner; k counts from 0
FlatCell(k) == <<k \div coordinate_height, k % coordinate_height>>

\* Python's None, as find_cell returns it
None == << >>

\* find_cell with "<=" for "<" in both upper tests
find_cellInclusive(x, y) ==
    IF x >= 0 /\ x <= coordinate_width /\ y >= 0 /\ y <= coordinate_height
    THEN <<x, y>>
    ELSE None

\* find_cell: the cell at (x, y), or None outside the grid
find_cell(x, y) ==
    IF x >= 0 /\ x < coordinate_width /\ y >= 0 /\ y < coordinate_height
    THEN <<x, y>>
    ELSE None

\* cell.adjacent_list without wrap-around: the neighbours across an edge are left out
adjacent_listNoWrap(c) ==
    SelectSeq(<< <<c[1], c[2] - 1>>, <<c[1] + 1, c[2]>>,
                 <<c[1], c[2] + 1>>, <<c[1] - 1, c[2]>> >>,
              LAMBDA n : find_cell(n[1], n[2]) # None)

\* cell.adjacent_list: the four wrap-around neighbours, up, right, down, left
\* (in a grid one cell wide or high a cell is its own neighbour)
adjacent_list(c) ==
    << <<c[1], (c[2] - 1) % coordinate_height>>,
       <<(c[1] + 1) % coordinate_width, c[2]>>,
       <<c[1], (c[2] + 1) % coordinate_height>>,
       <<(c[1] - 1) % coordinate_width, c[2]>> >>

\* terrain_handler.set_terrain on cell c of terrain map ter
set_terrain(ter, c, t) == [ter EXCEPT ![c] = t]

\* Python round(n / d) for n >= 0, d > 0: nearest integer, ties to the even one
PyRoundDiv(n, d) ==
    LET q == n \div d
        r == n % d
    IN  IF 2 * r < d THEN q
        ELSE IF 2 * r > d THEN q + 1
        ELSE IF q % 2 = 0 THEN q ELSE q + 1

\* num_worms rounded up instead of down
NumWormsCeil(a) == (a + 4) \div 5

\* one worm more than area // 5, as "range(num_worms + 1)" would run
NumWormsPlusOne(a) == (a \div 5) + 1

\* generate_terrain: num_worms = area // 5
NumWorms(a) == a \div 5

\* generate_terrain: min_length = round(area / 24)
MinLength(a) == PyRoundDiv(a, 24)

\* generate_terrain: max_length = round(area / 12)
MaxLength(a) == PyRoundDiv(a, 12)

\* random.sample(l, len(l)): every reordering of l
Shuffles(l) == {[k \in 1..Len(l) |-> l[p[k]]] : p \in Permutations(1..Len(l))}

----------------------------------------------------------------------------
(* generate_terrain *)

GenerateTerrainBegin ==
    /\ pc = "generate_terrain"
    /\ area' = coordinate_width * coordinate_height
    /\ num_worms' = NumWorms(coordinate_width * coordinate_height)
    /\ terrain_list' = IF enable_oceans THEN Append(terrain_list, "water")
                       ELSE terrain_list
    /\ i' = 0
    /\ pc' = "worm_loop"
    /\ UNCHANGED <<coordinate_width, coordinate_height, is_abstract_grid, from_save,
                   enable_oceans, terrain, resource, terrain_features>>
    /\ UNCHANGED <<wormVars, passVars, resVars, error, before>>
    /\ UNCHANGED <<saveVars, featVars, callVars>>
    /\ UNCHANGED extVars

\* one iteration of "for i in range(num_worms)": the call of make_random_terrain_worm
WormLoopCall ==
    /\ pc = "worm_loop"
    /\ i < num_worms
    /\ i' = i + 1
    /\ min_len' = MinLength(area)
    /\ max_len' = MaxLength(area)
    /\ possible_terrains' = terrain_list
    /\ ret' = "worm_loop"
    /\ pc' = "worm_begin"
    /\ UNCHANGED <<gridVars, area, num_worms, passVars, resVars, error, before>>
    /\ UNCHANGED <<current_x, current_y, worm_length, worm_terrain, counter,
                   worm_calls, path>>
    /\ UNCHANGED <<saveVars, featVars, callVars>>
    /\ UNCHANGED extVars

WormLoopExit ==
    /\ pc = "worm_loop"
    /\ i >= num_worms
    /\ cell_index' = 0
    /\ pc' = "consensus"
    /\ UNCHANGED <<gridVars, genVars, wormVars, resVars, error, before>>
    /\ UNCHANGED <<shuffled, by_fallback>>
    /\ UNCHANGED <<saveVars, featVars, callVars>>
    /\ UNCHANGED extVars

----------------------------------------------------------------------------
(* make_random_terrain_worm *)

\* the step without the wrap-around: no modulo on the changed coordinate
WormMoveNoWrap(x, y, direction) ==
    IF direction = 3 THEN <<x, y + 1>>
    ELSE IF direction = 2 THEN <<x + 1, y>>
    ELSE IF direction = 1 THEN <<x, y - 1>>
    ELSE IF direction = 4 THEN <<x - 1, y>>
    ELSE <<x, y>>

\* the new (current_x, current_y) after a step in the drawn direction
WormMove(x, y, direction) ==
    IF direction = 3 THEN <<x, (y + 1) % coordinate_height>>
    ELSE IF direction = 2 THEN <<(x + 1) % coordinate_width, y>>
    ELSE IF direction = 1 THEN <<x, (y - 1) % coordinate_height>>
    ELSE IF direction = 4 THEN <<(x - 1) % coordinate_width, y>>
    ELSE <<x, y>>

\* random.randrange(min_len, max_len): the upper end left out
WormLengthsExclusive(lo, hi) == lo..(hi - 1)

\* random.randrange(min_len, max_len + 1): the possible worm lengths
WormLengths(lo, hi) == lo..hi

\* the loop "while not counter == worm_length" goes on
WormContinues(c, len) == ~(c = len)

\* random.randrange raises ValueError on an empty range
WormBegin ==
    /\ pc = "worm_begin"
    /\ worm_calls' = worm_calls + 1
    /\ before' = terrain
    /\ IF WormLengths(min_len, max_len) = {}
       THEN /\ \E start_x \in 0..(coordinate_width - 1),
                  start_y \in 0..(coordinate_height - 1) :
                  /\ current_x' = start_x
                  /\ current_y' = start_y
            /\ error' = "ValueError"
            /\ pc' = "error"
            /\ UNCHANGED <<terrain, worm_length, worm_terrain, counter, path>>
       ELSE /\ \E start_x \in 0..(coordinate_width - 1),
                  start_y \in 0..(coordinate_height - 1),
                  len \in WormLengths(min_len, max_len),
                  t \in Range(possible_terrains) :
                  /\ current_x' = start_x
                  /\ current_y' = start_y
                  /\ worm_length' = len
                  /\ worm_terrain' = t
                  /\ terrain' = set_terrain(terrain, find_cell(start_x, start_y), t)
                  /\ path' = << find_cell(start_x, start_y) >>
            /\ counter' = 0
            /\ pc' = "worm_walk"
            /\ UNCHANGED error
    /\ UNCHANGED <<coordinate_width, coordinate_height, is_abstract_grid, from_save,
                   enable_oceans, terrain_list, resource, terrain_features>>
    /\ UNCHANGED <<genVars, passVars, resVars>>
    /\ UNCHANGED <<min_len, max_len, possible_terrains, ret>>
    /\ UNCHANGED <<saveVars, featVars, callVars>>
    /\ UNCHANGED extVars

\* a step that draws its own terrain instead of using the worm's
WormStepRedraw ==
    /\ pc = "worm_walk"
    /\ WormContinues(counter, worm_length)
    /\ counter' = counter + 1
    /\ \E direction \in 1..4, t \in Range(possible_terrains) :
          LET pos == WormMove(current_x, current_y, direction) IN
          /\ current_x' = pos[1]
          /\ current_y' = pos[2]
          /\ terrain' = set_terrain(terrain, find_cell(pos[1], pos[2]), t)
          /\ path' = Append(path, find_cell(pos[1], pos[2]))
    /\ UNCHANGED <<coordinate_width, coordinate_height, is_abstract_grid, from_save,
                   enable_oceans, terrain_list, resource, terrain_features>>
    /\ UNCHANGED <<genVars, passVars, resVars, pc, error, before>>
    /\ UNCHANGED <<min_len, max_len, possible_terrains, worm_length, worm_terrain,
                   ret, worm_calls>>
    /\ UNCHANGED <<saveVars, featVars, callVars>>
    /\ UNCHANGED extVars

\* find_cell(...).terrain_handler raises AttributeError when find_cell returns None
WormStep ==
    /\ pc = "worm_walk"
    /\ WormContinues(counter, worm_length)
    /\ counter' = counter + 1
    /\ \E direction \in 1..4 :
          LET pos == WormMove(current_x, current_y, direction) IN
          /\ current_x' = pos[1]
          /\ current_y' = pos[2]
          /\ IF find_cell(pos[1], pos[2]) = None
             THEN /\ error' = "AttributeError"
                  /\ pc' = "error"
                  /\ UNCHANGED <<terrain, path>>
             ELSE /\ terrain' = set_terrain(terrain, find_cell(pos[1], pos[2]), worm_terrain)
                  /\ path' = Append(path, find_cell(pos[1], pos[2]))
                  /\ UNCHANGED <<pc, error>>
    /\ UNCHANGED <<coordinate_width, coordinate_height, is_abstract_grid, from_save,
                   enable_oceans, terrain_list, resource, terrain_features>>
    /\ UNCHANGED <<genVars, passVars, resVars, before>>
    /\ UNCHANGED <<min_len, max_len, possible_terrains, worm_length, worm_terrain,
                   ret, worm_calls>>
    /\ UNCHANGED <<saveVars, featVars, callVars>>
    /\ UNCHANGED extVars

WormReturn ==
    /\ pc = "worm_walk"
    /\ ~WormContinues(counter, worm_length)
    /\ pc' = ret
    /\ UNCHANGED <<gridVars, genVars, wormVars, passVars, resVars, error, before>>
    /\ UNCHANGED <<saveVars, featVars, callVars>>
    /\ UNCHANGED extVars

----------------------------------------------------------------------------
(* generate_terrain: the consensus pass over get_flat_cell_list() *)

\* the loop with a break after the first set neighbour
RECURSIVE AdoptFirst(_, _, _, _)
AdoptFirst(ter, c, order, k) ==
    IF k > Len(order) THEN ter
    ELSE IF ter[order[k]] # "none"
         THEN set_terrain(ter, c, ter[order[k]])
         ELSE AdoptFirst(ter, c, order, k + 1)

\* "for neighbor in random.sample(...)": the terrain map after the loop body has
\* run for order[k..], for the unset cell c
RECURSIVE AdoptLoop(_, _, _, _)
AdoptLoop(ter, c, order, k) ==
    IF k > Len(order) THEN ter
    ELSE IF ter[order[k]] # "none"
         THEN AdoptLoop(set_terrain(ter, c, ter[order[k]]), c, order, k + 1)
         ELSE AdoptLoop(ter, c, order, k + 1)

\* the fallback assignment left out: the cell keeps the unset value
FallbackSkipped(l) == {"none"}

\* the terrains random.choice(constants.terrain_list) can return
FallbackTerrains(l) == Range(l)

ConsensusCell ==
    /\ pc = "consensus"
    /\ cell_index < NumCells
    /\ cell_index' = cell_index + 1
    /\ before' = terrain
    /\ LET c == FlatCell(cell_index) IN
       IF terrain[c] = "none"
       THEN \E order \in Shuffles(adjacent_list(c)) :
              LET adopted == AdoptLoop(terrain, c, order, 1) IN
              /\ shuffled' = order
              /\ IF adopted[c] = "none"
                 THEN /\ \E t \in FallbackTerrains(terrain_list) :
                            terrain' = set_terrain(adopted, c, t)
                      /\ by_fallback' = TRUE
                 ELSE /\ terrain' = adopted
                      /\ by_fallback' = FALSE
       ELSE /\ shuffled' = <<>>
            /\ by_fallback' = FALSE
            /\ UNCHANGED terrain
    /\ UNCHANGED <<coordinate_width, coordinate_height, is_abstract_grid, from_save,
                   enable_oceans, terrain_list, resource, terrain_features>>
    /\ UNCHANGED <<genVars, wormVars, resVars, pc, error>>
    /\ UNCHANGED <<saveVars, featVars, callVars>>
    /\ UNCHANGED extVars

GenerateTerrainReturn ==
    /\ pc = "consensus"
    /\ cell_index >= NumCells
    /\ pc' = "generated"
    /\ UNCHANGED <<gridVars, genVars, wormVars, passVars, resVars, error, before>>
    /\ UNCHANGED <<saveVars, featVars, callVars>>
    /\ UNCHANGED extVars

----------------------------------------------------------------------------
(* Specification: generate_terrain on a newly created grid *)

\* grid.__init__ with from_save false: create_cells leaves every cell without
\* terrain, resource and features
InitGrid(w, h, abstract, oceans) ==
    /\ coordinate_width = w
    /\ coordinate_height = h
    /\ is_abstract_grid = abstract
    /\ from_save = FALSE
    /\ enable_oceans = oceans
    /\ terrain_list = BaseTerrainList
    /\ resource = [c \in (0..(w - 1)) \X (0..(h - 1)) |-> "none"]
    /\ terrain_features = [c \in (0..(w - 1)) \X (0..(h - 1)) |-> {}]

\* the state no operation has touched yet
InitNoSave ==
    /\ grid_type = "strategic_map_grid"
    /\ parameters = << >>
    /\ save_dicts = << >>
    /\ save_dict = << >>
    /\ saved = << >>

InitFeat ==
    /\ features_before = << >>
    /\ allowed_places = {}

InitCall ==
    /\ call_args = << >>
    /\ call_result = << >>
    /\ tdg_terrain_list = << >>

InitMini ==
    /\ current_game_mode = "strategic"
    /\ mini_grids = << >>
    /\ sibling_index = 0
    /\ calibrate_calls = << >>
    /\ mini_before = << >>

InitTiles ==
    /\ tiles = << >>
    /\ amount_to_remove = 0
    /\ amount_removed = 0
    /\ commodity_types = << >>
    /\ tiles_before = << >>

InitWorkers ==
    /\ worker = << >>
    /\ vehicle = << >>
    /\ group = << >>
    /\ player_turn_queue = << >>
    /\ contained_mobs = << >>
    /\ image_index = 0
    /\ contained_before = << >>
    /\ in_protocol = TRUE
    /\ worker_types = << >>
    /\ mob_list = << >>
    /\ recruit_log = << >>

InitActors ==
    /\ InitTiles
    /\ InitWorkers

InitExt ==
    /\ InitMini
    /\ InitActors

\* the locals of the grid's methods before any call
InitGridLocals ==
    /\ InitNoSave
    /\ InitFeat
    /\ InitCall
    /\ error = "none"
    /\ area = 0
    /\ num_worms = 0
    /\ i = 0
    /\ min_len = 0
    /\ max_len = 0
    /\ possible_terrains = <<>>
    /\ current_x = 0
    /\ current_y = 0
    /\ worm_length = 0
    /\ worm_terrain = "none"
    /\ counter = 0
    /\ ret = "none"
    /\ worm_calls = 0
    /\ path = <<>>
    /\ cell_index = 0
    /\ shuffled = <<>>
    /\ by_fallback = FALSE
    /\ resource_frequencies = << >>
    /\ resource_list_dict = << >>
    /\ terrain_number = 0

InitLocals ==
    /\ InitGridLocals
    /\ InitExt

Init ==
    /\ \E w \in 1..MaxArea, h \in 1..MaxArea, abstract \in BOOLEAN, oceans \in BOOLEAN :
          /\ w * h <= MaxArea
          /\ abstract => (w = 1 /\ h = 1)
          /\ InitGrid(w, h, abstract, oceans)
          /\ terrain = [c \in (0..(w - 1)) \X (0..(h - 1)) |-> "none"]
          /\ before = [c \in (0..(w - 1)) \X (0..(h - 1)) |-> "none"]
    /\ InitLocals
    /\ pc = "generate_terrain"

Next ==
    \/ GenerateTerrainBegin
    \/ WormLoopCall
    \/ WormLoopExit
    \/ WormBegin
    \/ WormStep
    \/ WormReturn
    \/ ConsensusCell
    \/ GenerateTerrainReturn

Spec == Init /\ [][Next]_vars

----------------------------------------------------------------------------
(* Specification: make_random_terrain_worm called once, on a grid without      *)
(* terrain or on one that a consensus pass filled with a single terrain        *)

InitWorm ==
    /\ \E w \in 1..MaxWormArea, h \in 1..MaxWormArea, t \in {"none", "swamp"} :
          /\ w * h <= MaxWormArea
          /\ InitGrid(w, h, FALSE, FALSE)
          /\ terrain = [c \in (0..(w - 1)) \X (0..(h - 1)) |-> t]
          /\ before = [c \in (0..(w - 1)) \X (0..(h - 1)) |-> t]
    /\ InitNoSave
    /\ InitFeat
    /\ InitCall
    /\ InitExt
    /\ error = "none"
    /\ area = 0
    /\ num_worms = 0
    /\ i = 0
    /\ min_len \in 0..MaxLen
    /\ max_len \in 0..MaxLen
    /\ possible_terrains = BaseTerrainList
    /\ current_x = 0
    /\ current_y = 0
    /\ worm_length = 0
    /\ worm_terrain = "none"
    /\ counter = 0
    /\ ret = "returned"
    /\ worm_calls = 0
    /\ path = <<>>
    /\ cell_index = 0
    /\ shuffled = <<>>
    /\ by_fallback = FALSE
    /\ resource_frequencies = << >>
    /\ resource_list_dict = << >>
    /\ terrain_number = 0
    /\ pc = "worm_begin"

NextWorm ==
    \/ WormBegin
    \/ WormStep
    \/ WormReturn

SpecWorm == InitWorm /\ [][NextWorm]_vars

----------------------------------------------------------------------------
(* Specification: the worm loop of generate_terrain on grids of up to           *)
(* MaxNumWidth x MaxNumHeight cells, each worm reduced to the draw of its length *)

\* make_random_terrain_worm without its walk: the call and the draw of worm_length
WormLengthDraw ==
    /\ pc = "worm_begin"
    /\ worm_calls' = worm_calls + 1
    /\ IF WormLengths(min_len, max_len) = {}
       THEN /\ error' = "ValueError"
            /\ pc' = "error"
            /\ UNCHANGED worm_length
       ELSE /\ \E len \in WormLengths(min_len, max_len) : worm_length' = len
            /\ pc' = ret
            /\ UNCHANGED error
    /\ UNCHANGED <<gridVars, genVars, passVars, resVars, before>>
    /\ UNCHANGED <<min_len, max_len, possible_terrains, current_x, current_y,
                   worm_terrain, counter, ret, path>>
    /\ UNCHANGED <<saveVars, featVars, callVars>>
    /\ UNCHANGED extVars

InitNum ==
    /\ \E w \in 1..MaxNumWidth, h \in 1..MaxNumHeight, oceans \in BOOLEAN :
          /\ InitGrid(w, h, FALSE, oceans)
          /\ terrain = << >>
          /\ before = << >>
    /\ InitLocals
    /\ pc = "generate_terrain"

NextNum ==
    \/ GenerateTerrainBegin
    \/ WormLoopCall
    \/ WormLengthDraw
    \/ WormLoopExit

SpecNum == InitNum /\ [][NextNum]_vars

----------------------------------------------------------------------------
(* set_resources *)

\* create_resource_list_dict, one terrain: the (resource, running total) pairs of
\* the terrain's (resource, frequency) entries, in file order
RECURSIVE Cumulate(_, _, _)
Cumulate(entries, k, total_frequency) ==
    IF k > Len(entries) THEN <<>>
    ELSE << <<entries[k][1], total_frequency + entries[k][2]>> >>
         \o Cumulate(entries, k + 1, total_frequency + entries[k][2])

\* create_resource_list_dict
create_resource_list_dict(frequencies) ==
    [current_terrain \in DOMAIN frequencies |-> Cumulate(frequencies[current_terrain], 1, 0)]

\* the scan with "<=" for "<": an entry is taken when the draw equals its total
RECURSIVE ScanResourcesInclusive(_, _, _, _)
ScanResourcesInclusive(list, k, number, old) ==
    IF k > Len(list) THEN old
    ELSE IF number <= list[k][2] THEN list[k][1]
    ELSE ScanResourcesInclusive(list, k + 1, number, old)

\* the scan of set_resources: the resource of the first entry of list, from
\* position k on, whose running total is above number; old when there is none
RECURSIVE ScanResources(_, _, _, _)
ScanResources(list, k, number, old) ==
    IF k > Len(list) THEN old
    ELSE IF number < list[k][2] THEN list[k][1]
    ELSE ScanResources(list, k + 1, number, old)

\* random.randrange(n): the possible draws (ValueError when there is none)
Draws(n) == 0..(n - 1)

\* the exception the draw of terrain_number raises for terrain t, or "none"
DrawError(dict, t) ==
    IF t \notin DOMAIN dict THEN "KeyError"
    ELSE IF Len(dict[t]) = 0 THEN "IndexError"
    ELSE IF Draws(dict[t][Len(dict[t])][2]) = {} THEN "ValueError"
    ELSE "none"

SetResourcesBegin ==
    /\ pc = "set_resources"
    /\ ~from_save
    /\ resource_list_dict' = create_resource_list_dict(resource_frequencies)
    /\ cell_index' = 0
    /\ pc' = "resource_loop"
    /\ UNCHANGED <<gridVars, genVars, wormVars, error, before>>
    /\ UNCHANGED <<shuffled, by_fallback, resource_frequencies, terrain_number>>
    /\ UNCHANGED <<saveVars, featVars, callVars>>
    /\ UNCHANGED extVars

\* one iteration of "for cell in self.get_flat_cell_list()"
SetResourceCell ==
    /\ pc = "resource_loop"
    /\ cell_index < NumCells
    /\ LET c == FlatCell(cell_index)
           t == terrain[c]
       IN  IF DrawError(resource_list_dict, t) # "none"
           THEN /\ error' = DrawError(resource_list_dict, t)
                /\ pc' = "error"
                /\ UNCHANGED <<resource, terrain_number, cell_index>>
           ELSE /\ \E number \in Draws(resource_list_dict[t][Len(resource_list_dict[t])][2]) :
                      /\ terrain_number' = number
                      /\ resource' = [resource EXCEPT ![c] =
                             ScanResources(resource_list_dict[t], 1, number, resource[c])]
                /\ cell_index' = cell_index + 1
                /\ UNCHANGED <<pc, error>>
    /\ UNCHANGED <<coordinate_width, coordinate_height, is_abstract_grid, from_save,
                   enable_oceans, terrain_list, terrain, terrain_features>>
    /\ UNCHANGED <<genVars, wormVars, before>>
    /\ UNCHANGED <<shuffled, by_fallback, resource_frequencies, resource_list_dict>>
    /\ UNCHANGED <<saveVars, featVars, callVars>>
    /\ UNCHANGED extVars

\* generate_terrain_features that gives an accepted cell a new dictionary
\* holding the placed features only
PlaceFeaturesAlone(features, allowed) ==
    [c \in DOMAIN features |->
        IF \E f \in FeatureTypes : <<f, c>> \in allowed
        THEN {<<f, [feature_type |-> f]>> : f \in {g \in FeatureTypes : <<g, c>> \in allowed}}
        ELSE features[c]]

\* generate_terrain_features: every feature type is attached to the cells its
\* allow_place accepts (allowed: the accepted (feature type, cell) pairs)
PlaceFeatures(features, allowed) ==
    [c \in DOMAIN features |->
        {e \in features[c] : <<e[1], c>> \notin allowed}
        \cup {<<f, [feature_type |-> f]>> : f \in {g \in FeatureTypes : <<g, c>> \in allowed}}]

\* the end of the cell loop: generate_terrain_features, then return
SetResourcesFeatures ==
    /\ pc = "resource_loop"
    /\ cell_index >= NumCells
    /\ \E allowed \in SUBSET (FeatureTypes \X Cells) :
          /\ terrain_features' = PlaceFeatures(terrain_features, allowed)
          /\ allowed_places' = allowed
    /\ features_before' = terrain_features
    /\ pc' = "resources_set"
    /\ UNCHANGED <<coordinate_width, coordinate_height, is_abstract_grid, from_save,
                   enable_oceans, terrain_list, terrain, resource>>
    /\ UNCHANGED <<genVars, wormVars, passVars, resVars, error, before>>
    /\ UNCHANGED <<saveVars, callVars>>
    /\ UNCHANGED extVars

----------------------------------------------------------------------------
(* Specification: set_resources on a new grid whose terrain has been generated *)

\* contents of configuration/resource_frequencies.json: per terrain the
\* (resource, frequency) entries in file order
FrequencyTables ==
    { [savannah |-> << <<"diamond", 2>>, <<"none", 8>> >>,
       swamp |-> << <<"none", 1>>, <<"gold", 0>>, <<"exotic wood", 2>> >>,
       water |-> << <<"none", 1>> >>],
      [savannah |-> << <<"diamond", 2>>, <<"none", 8>> >>,
       swamp |-> << <<"gold", 0>>, <<"none", 3>> >>],
      [savannah |-> << <<"none", 0>>, <<"diamond", 0>> >>,
       swamp |-> << <<"none", 1>>, <<"gold", 1>> >>,
       water |-> << <<"none", 1>> >>],
      [savannah |-> << <<"none", 1>> >>,
       swamp |-> << >>,
       water |-> << <<"none", 1>> >>] }

InitRes ==
    /\ \E w \in 1..MaxResArea, h \in 1..MaxResArea, oceans \in BOOLEAN :
          /\ w * h <= MaxResArea
          /\ coordinate_width = w
          /\ coordinate_height = h
          /\ is_abstract_grid = FALSE
          /\ from_save = FALSE
          /\ enable_oceans = oceans
          /\ terrain_list = IF oceans THEN Append(BaseTerrainList, "water")
                            ELSE BaseTerrainList
          /\ terrain \in [(0..(w - 1)) \X (0..(h - 1)) ->
                            Range(IF oceans THEN Append(BaseTerrainList, "water")
                                  ELSE BaseTerrainList)]
          /\ resource = [c \in (0..(w - 1)) \X (0..(h - 1)) |-> "none"]
          /\ terrain_features = [c \in (0..(w - 1)) \X (0..(h - 1)) |-> {}]
          /\ before = << >>
    /\ InitNoSave
    /\ InitFeat
    /\ InitCall
    /\ InitExt
    /\ error = "none"
    /\ area = 0
    /\ num_worms = 0
    /\ i = 0
    /\ min_len = 0
    /\ max_len = 0
    /\ possible_terrains = <<>>
    /\ current_x = 0
    /\ current_y = 0
    /\ worm_length = 0
    /\ worm_terrain = "none"
    /\ counter = 0
    /\ ret = "none"
    /\ worm_calls = 0
    /\ path = <<>>
    /\ cell_index = 0
    /\ shuffled = <<>>
    /\ by_fallback = FALSE
    /\ resource_frequencies \in FrequencyTables
    /\ resource_list_dict = << >>
    /\ terrain_number = 0
    /\ pc = "set_resources"

NextRes ==
    \/ SetResourcesBegin
    \/ SetResourceCell
    \/ SetResourcesFeatures

SpecRes == InitRes /\ [][NextRes]_vars

----------------------------------------------------------------------------
(* Properties of generate_terrain (specification Spec) *)

\* the cell the consensus pass visited last
LastVisited == FlatCell(cell_index - 1)

\* the consensus pass has just visited a cell that had no terrain
VisitedUnset ==
    /\ pc \in {"consensus", "generated"}
    /\ cell_index >= 1
    /\ before[LastVisited] = "none"

\* positions of the shuffled neighbour order whose cell had a terrain before the visit
SetPositions == {k \in 1..Len(shuffled) : before[shuffled[k]] # "none"}

MinOf(S) == CHOOSE m \in S : \A n \in S : m <= n
MaxOf(S) == CHOOSE m \in S : \A n \in S : m >= n

\* C1: when generate_terrain returns, every cell's terrain is a member of the
\* allowed terrain list and no cell still has the unset value "none".
C1_Coverage ==
    pc = "generated" =>
        \A c \in Cells : terrain[c] \in Range(terrain_list) /\ terrain[c] # "none"

\* C1 witness: generate_terrain has returned on a grid that a worm painted and
\* that ended with two different terrains
C1_Witness ==
    /\ pc = "generated"
    /\ worm_calls >= 1
    /\ \E c \in Cells, d \in Cells : terrain[c] # terrain[d]

\* C2 as stated: an unset cell with a set neighbour ends with the terrain of the
\* FIRST set neighbour of the shuffled order; without a set neighbour it gets a
\* terrain of the allowed terrain list.
C2_FirstSetNeighbour ==
    VisitedUnset =>
        IF SetPositions # {}
        THEN terrain[LastVisited] = before[shuffled[MinOf(SetPositions)]]
        ELSE by_fallback /\ terrain[LastVisited] \in Range(terrain_list)

\* C2 amended: an unset cell with a set neighbour ends with the terrain of the
\* LAST set neighbour of the shuffled order (the loop has no break, every set
\* neighbour overwrites the choice); without a set neighbour it gets a terrain
\* of the allowed terrain list; no other cell changes.
C2_LastSetNeighbour ==
    VisitedUnset =>
        /\ IF SetPositions # {}
           THEN ~by_fallback /\ terrain[LastVisited] = before[shuffled[MaxOf(SetPositions)]]
           ELSE by_fallback /\ terrain[LastVisited] \in Range(terrain_list)
        /\ \A c \in Cells \ {LastVisited} : terrain[c] = before[c]

\* C2 witness: the visited cell had set neighbours with different terrains, and
\* took the terrain of the last one, which is not that of the first one
C2_Witness ==
    /\ VisitedUnset
    /\ SetPositions # {}
    /\ before[shuffled[MinOf(SetPositions)]] # before[shuffled[MaxOf(SetPositions)]]
    /\ terrain[LastVisited] = before[shuffled[MaxOf(SetPositions)]]

\* C7: on a 1x1 grid generate_terrain returns without having run a worm, and
\* the single cell has a terrain of the allowed terrain list, assigned by the
\* random fallback of the consensus pass.
C7_SingleCell ==
    (coordinate_width = 1 /\ coordinate_height = 1) =>
        /\ worm_calls = 0
        /\ pc # "error"
        /\ pc = "generated" =>
              /\ terrain[<<0, 0>>] \in Range(terrain_list)
              /\ by_fallback
              /\ cell_index = 1

\* C7 witness: generate_terrain has returned on an abstract 1x1 grid
C7_Witness ==
    /\ coordinate_width = 1
    /\ coordinate_height = 1
    /\ is_abstract_grid
    /\ pc = "generated"
    /\ terrain[<<0, 0>>] = "swamp"

----------------------------------------------------------------------------
(* Properties of make_random_terrain_worm (specification SpecWorm) *)

\* a worm has set its start cell and has not failed
WormRunning == pc \in {"worm_walk", "returned"}

\* b is a at one wrap-around step along x or along y
UnitStep(a, b) ==
    \/ /\ b[2] = a[2]
       /\ \/ b[1] = (a[1] + 1) % coordinate_width
          \/ b[1] = (a[1] - 1) % coordinate_width
    \/ /\ b[1] = a[1]
       /\ \/ b[2] = (a[2] + 1) % coordinate_height
          \/ b[2] = (a[2] - 1) % coordinate_height

\* C3: every position of the walk is inside the grid, find_cell never returns
\* None, and each step changes exactly one coordinate by +1 or -1 modulo the
\* grid's width or height: the painted cells form a path of wrap-around steps
\* from the start cell.
C3_WalkInGrid ==
    /\ error # "AttributeError"
    /\ current_x \in 0..(coordinate_width - 1)
    /\ current_y \in 0..(coordinate_height - 1)
    /\ WormRunning =>
          /\ Len(path) = counter + 1
          /\ counter <= worm_length
          /\ path[Len(path)] = <<current_x, current_y>>
          /\ \A k \in 1..Len(path) : path[k] \in Cells
          /\ \A k \in 1..(Len(path) - 1) : UnitStep(path[k], path[k + 1])

\* C3 witness: a returned worm of three steps that crossed an edge of the grid
\* along x and along y
C3_Witness ==
    /\ pc = "returned"
    /\ counter = 3
    /\ \E k \in 1..3 : path[k][1] = 0 /\ path[k + 1][1] = coordinate_width - 1
                        /\ coordinate_width >= 3
    /\ \E k \in 1..3 : path[k][2] = coordinate_height - 1 /\ path[k + 1][2] = 0
                        /\ coordinate_height >= 2

\* C4: one call draws a single terrain of possible_terrains and sets exactly
\* that terrain on the start cell and on every cell reached by a step; every
\* cell not on the walk keeps the terrain it had before the call.
C4_WormFrame ==
    WormRunning =>
        /\ worm_terrain \in Range(possible_terrains)
        /\ \A c \in Cells :
              IF c \in Range(path) THEN terrain[c] = worm_terrain
              ELSE terrain[c] = before[c]

\* C4 witness: a returned worm painted three cells savannah on a grid of swamp
\* and left other cells swamp
C4_Witness ==
    /\ pc = "returned"
    /\ worm_terrain = "savannah"
    /\ Cardinality(Range(path)) = 3
    /\ \E c \in Cells : c \notin Range(path) /\ terrain[c] = "swamp"

\* C8 as stated: the number of cells whose terrain one worm sets, the start
\* cell included, is at least min_len and at most max_len.
C8_AtMostMaxLen ==
    pc = "returned" =>
        /\ Cardinality(Range(path)) >= min_len
        /\ Cardinality(Range(path)) <= max_len

----------------------------------------------------------------------------
(* Properties of the worm loop (specification SpecNum) *)

\* m is n / d rounded to the nearest integer, a tie going to the even one
IsNearest(m, n, d) ==
    LET diff == IF d * m >= n THEN d * m - n ELSE n - d * m
    IN  \/ 2 * diff < d
        \/ 2 * diff = d /\ m % 2 = 0

\* C5: generate_terrain runs make_random_terrain_worm exactly
\* floor(width * height / 5) times; zero times when width * height < 5.
C5_WormCount ==
    /\ 5 * worm_calls <= coordinate_width * coordinate_height
    /\ pc = "consensus" =>
          coordinate_width * coordinate_height < 5 * worm_calls + 5
    /\ coordinate_width * coordinate_height < 5 => worm_calls = 0

\* C5 witness: the worm loop of a grid of 96 cells has ended after 19 worms
C5_Witness ==
    /\ pc = "consensus"
    /\ coordinate_width * coordinate_height = 96
    /\ worm_calls = 19

\* C6: the range handed to every worm is [round(area/24), round(area/12)], it is
\* never empty, so the draw of the length does not fail, every drawn length lies
\* in it, and for area = 100 it is [4, 8].
C6_WormLengthRange ==
    /\ error # "ValueError"
    /\ worm_calls >= 1 =>
          /\ IsNearest(min_len, coordinate_width * coordinate_height, 24)
          /\ IsNearest(max_len, coordinate_width * coordinate_height, 12)
          /\ min_len <= max_len
          /\ pc # "error" => (min_len <= worm_length /\ worm_length <= max_len)
          /\ coordinate_width * coordinate_height = 100 => (min_len = 4 /\ max_len = 8)

\* C6 witness: on a grid of 100 cells a worm has drawn the largest length, 8
C6_Witness ==
    /\ coordinate_width * coordinate_height = 100
    /\ worm_calls >= 1
    /\ pc = "worm_loop"
    /\ worm_length = 8

----------------------------------------------------------------------------
(* Properties of set_resources (specification SpecRes) *)

\* sum of the frequencies of the first k entries of a terrain's frequency entries
RECURSIVE FrequencySum(_, _)
FrequencySum(entries, k) ==
    IF k = 0 THEN 0 ELSE FrequencySum(entries, k - 1) + entries[k][2]

\* the cell set_resources visited last
LastResourceCell == FlatCell(cell_index - 1)

\* the terrain's frequency entries give it no resource to draw: the terrain is
\* absent from the table, or has no entries, or its frequencies add up to zero
NoResourceFor(t) ==
    \/ t \notin DOMAIN resource_frequencies
    \/ FrequencySum(resource_frequencies[t], Len(resource_frequencies[t])) = 0

\* C9: a visited cell gets the first entry whose cumulative weight exceeds the
\* draw d in [0, total_weight): the entry k with
\* weight(1..k-1) <= d < weight(1..k); so a resource of weight w is selected
\* for exactly w of the total_weight draws and one of weight 0 never; the
\* cumulative list is non-decreasing and ends with the sum of the weights.
C9_WeightedDraw ==
    /\ (pc \in {"resource_loop", "resources_set", "error"} /\ cell_index >= 1) =>
          LET entries == resource_frequencies[terrain[LastResourceCell]]
          IN  /\ terrain_number \in 0..(FrequencySum(entries, Len(entries)) - 1)
              /\ \E k \in 1..Len(entries) :
                    /\ resource[LastResourceCell] = entries[k][1]
                    /\ FrequencySum(entries, k - 1) <= terrain_number
                    /\ terrain_number < FrequencySum(entries, k)
    /\ pc \in {"resource_loop", "resources_set", "error"} =>
          \A t \in DOMAIN resource_frequencies :
             LET entries == resource_frequencies[t]
                 list == resource_list_dict[t]
                 total == FrequencySum(entries, Len(entries))
             IN  /\ Len(list) = Len(entries)
                 /\ \A k \in 1..Len(list) :
                       /\ list[k][1] = entries[k][1]
                       /\ k > 1 => list[k - 1][2] <= list[k][2]
                       /\ Cardinality({d \in 0..(total - 1) :
                              ScanResources(list, 1, d, "unset") = list[k][1]})
                          = entries[k][2]
                 /\ Len(list) >= 1 => list[Len(list)][2] = total

\* C9 witness: a savannah cell with weights diamond 2, none 8 drew 1 and got
\* diamond, after an earlier savannah cell had got none
C9_Witness ==
    /\ pc = "resources_set"
    /\ cell_index = 2
    /\ terrain[LastResourceCell] = "savannah"
    /\ resource_frequencies["savannah"] = << <<"diamond", 2>>, <<"none", 8>> >>
    /\ terrain_number = 1
    /\ resource[LastResourceCell] = "diamond"
    /\ terrain[FlatCell(0)] = "savannah"
    /\ resource[FlatCell(0)] = "none"

\* C10 as stated: set_resources does not fail, and when it has completed every
\* cell whose terrain is absent from the frequency table, or has no resources
\* or zero total weight there, has the "none" resource.
C10_NoResourceNoFailure ==
    /\ pc # "error"
    /\ pc = "resources_set" =>
          \A c \in Cells : NoResourceFor(terrain[c]) => resource[c] = "none"

----------------------------------------------------------------------------
(* to_save_dict, and the construction of a grid, new or from a save *)

\* largest coordinate_width * coordinate_height of a grid that is saved and loaded
MaxSaveArea == 2
\* the largest value of a terrain parameter without a maximum of its own
DefaultMaximum == 6

\* the terrain parameter values the cells of a saved grid take
ParameterValues == {1, DefaultMaximum}

\* constants.terrain_parameters
TerrainParameters == {"temperature"}

\* constants.abstract_grid_type_list
AbstractGridTypes == {"earth_grid"}

\* the save_dict argument of create_cell when there is no record: "none"
NoSaveDict == [none |-> "none"]

\* the terrain_features entries a cell can hold
FeatureEntries == {<<f, [feature_type |-> f]>> : f \in FeatureTypes}

\* cell.to_save_dict: the record of the cell at c
cell_to_save_dict(c) ==
    [coordinates |-> c,
     terrain |-> terrain[c],
     resource |-> resource[c],
     parameters |-> parameters[c],
     terrain_features |-> terrain_features[c]]

\* to_save_dict that walks cell_list[0] only
to_save_dictFirstColumn ==
    [grid_type |-> grid_type,
     cell_list |-> [k \in 1..coordinate_height |-> cell_to_save_dict(FlatCell(k - 1))]]

\* to_save_dict: grid_type, and the record of every cell of get_flat_cell_list()
to_save_dict ==
    [grid_type |-> grid_type,
     cell_list |-> [k \in 1..NumCells |-> cell_to_save_dict(FlatCell(k - 1))]]

ToSaveDict ==
    /\ pc = "to_save_dict"
    /\ save_dict' = to_save_dict
    /\ saved' = [coordinate_width |-> coordinate_width,
                 coordinate_height |-> coordinate_height,
                 terrain |-> terrain,
                 resource |-> resource,
                 parameters |-> parameters,
                 terrain_features |-> terrain_features]
    /\ pc' = "saved"
    /\ UNCHANGED <<gridVars, genVars, wormVars, passVars, resVars, featVars, callVars>>
    /\ UNCHANGED <<grid_type, parameters, save_dicts, error, before>>
    /\ UNCHANGED extVars

\* cells.cell(x, y, ..., save_dict): a blank cell, or the cell its record describes
\* (the resource of a restored cell is left to set_resources)
cell(record) ==
    IF record = NoSaveDict
    THEN [terrain |-> "none", resource |-> "none", parameters |-> << >>,
          terrain_features |-> {}, save_dict |-> NoSaveDict]
    ELSE [terrain |-> record.terrain, resource |-> "none",
          parameters |-> record.parameters,
          terrain_features |-> record.terrain_features, save_dict |-> record]

\* create_cell: the new cell takes its place in cell_list[x][y]
create_cell(cells, x, y, record) == [cells EXCEPT ![<<x, y>>] = cell(record)]

\* create_cells: a blank cell at every position of cell_list
create_cells(cells) == [c \in DOMAIN cells |-> create_cell(cells, c[1], c[2], NoSaveDict)[c]]

\* load_cells that creates the cell of the k-th record at the k-th position of
\* get_flat_cell_list(), whatever the record's coordinates
RECURSIVE load_cellsByPosition(_, _, _)
load_cellsByPosition(cells, records, k) ==
    IF k > Len(records) THEN cells
    ELSE load_cellsByPosition(
             create_cell(cells, FlatCell(k - 1)[1], FlatCell(k - 1)[2], records[k]),
             records, k + 1)

\* load_cells: records k.. of the list, each creating the cell at its coordinates
RECURSIVE load_cells(_, _, _)
load_cells(cells, records, k) ==
    IF k > Len(records) THEN cells
    ELSE load_cells(
             create_cell(cells, records[k].coordinates[1], records[k].coordinates[2],
                         records[k]),
             records, k + 1)

\* grid.__init__ called by create with the grid type of the saved grid: the
\* new grid has the width and height create takes from constants, and its
\* cells come from create_cells or, from a save, from load_cells on the
\* saved records (records: the cell_list of the save, in the order the save
\* file holds it)
GridInit ==
    /\ pc = "saved"
    /\ \E load \in BOOLEAN, records \in Shuffles(save_dict.cell_list) :
          /\ from_save' = load
          /\ LET blank == [c \in Cells |-> None]
                 cells == IF load THEN load_cells(blank, records, 1)
                          ELSE create_cells(blank)
             IN  IF \E c \in Cells : cells[c] = None
                 THEN \* find_adjacent_cells on a position no record filled
                      /\ error' = "AttributeError"
                      /\ pc' = "error"
                      /\ UNCHANGED <<terrain, resource, parameters, terrain_features,
                                     save_dicts>>
                 ELSE /\ terrain' = [c \in Cells |-> cells[c].terrain]
                      /\ resource' = [c \in Cells |-> cells[c].resource]
                      /\ parameters' = [c \in Cells |-> cells[c].parameters]
                      /\ terrain_features' = [c \in Cells |-> cells[c].terrain_features]
                      /\ save_dicts' = [c \in Cells |-> cells[c].save_dict]
                      /\ pc' = IF load THEN "set_resources" ELSE "generate_terrain"
                      /\ error' = error
    /\ is_abstract_grid' = (grid_type \in AbstractGridTypes)
    /\ UNCHANGED <<coordinate_width, coordinate_height, enable_oceans, terrain_list>>
    /\ UNCHANGED <<genVars, wormVars, passVars, resVars, featVars, callVars>>
    /\ UNCHANGED <<grid_type, save_dict, saved, before>>
    /\ UNCHANGED extVars

\* set_resources of a loaded grid that runs generate_terrain_features as well
SetResourcesLoadFeatures ==
    /\ pc = "set_resources"
    /\ from_save
    /\ resource' = [c \in Cells |-> save_dicts[c].resource]
    /\ \E allowed \in SUBSET (FeatureTypes \X Cells) :
          /\ terrain_features' = PlaceFeatures(terrain_features, allowed)
          /\ allowed_places' = allowed
    /\ features_before' = terrain_features
    /\ pc' = "resources_set"
    /\ UNCHANGED <<coordinate_width, coordinate_height, is_abstract_grid, from_save,
                   enable_oceans, terrain_list, terrain>>
    /\ UNCHANGED <<genVars, wormVars, passVars, resVars, saveVars, callVars>>
    /\ UNCHANGED <<error, before>>
    /\ UNCHANGED extVars

\* set_resources of a loaded grid: every cell's resource is the one of its record
SetResourcesLoad ==
    /\ pc = "set_resources"
    /\ from_save
    /\ resource' = [c \in Cells |-> save_dicts[c].resource]
    /\ pc' = "resources_set"
    /\ UNCHANGED <<coordinate_width, coordinate_height, is_abstract_grid, from_save,
                   enable_oceans, terrain_list, terrain, terrain_features>>
    /\ UNCHANGED <<genVars, wormVars, passVars, resVars, saveVars, featVars, callVars>>
    /\ UNCHANGED <<error, before>>
    /\ UNCHANGED extVars

----------------------------------------------------------------------------
(* Specification: a grid with terrain, resources and features is saved, and a
   grid of the same type is then constructed, new or from the save *)

InitSaved ==
    /\ \E w \in 1..MaxSaveArea, h \in 1..MaxSaveArea, abstract \in BOOLEAN :
          /\ w * h <= MaxSaveArea
          /\ abstract => w * h = 1
          /\ coordinate_width = w
          /\ coordinate_height = h
          /\ is_abstract_grid = abstract
          /\ grid_type = IF abstract THEN "earth_grid" ELSE "strategic_map_grid"
          /\ terrain \in [(0..(w - 1)) \X (0..(h - 1)) -> Range(BaseTerrainList)]
          /\ resource \in [(0..(w - 1)) \X (0..(h - 1)) -> {"none", "diamond"}]
          /\ parameters \in [(0..(w - 1)) \X (0..(h - 1)) ->
                                [TerrainParameters -> ParameterValues]]
          /\ terrain_features \in [(0..(w - 1)) \X (0..(h - 1)) -> SUBSET FeatureEntries]
          /\ save_dicts = [c \in (0..(w - 1)) \X (0..(h - 1)) |-> NoSaveDict]
    /\ from_save = FALSE
    /\ enable_oceans = FALSE
    /\ terrain_list = BaseTerrainList
    /\ save_dict = << >>
    /\ saved = << >>
    /\ before = << >>
    /\ InitFeat
    /\ InitCall
    /\ InitExt
    /\ error = "none"
    /\ area = 0
    /\ num_worms = 0
    /\ i = 0
    /\ min_len = 0
    /\ max_len = 0
    /\ possible_terrains = <<>>
    /\ current_x = 0
    /\ current_y = 0
    /\ worm_length = 0
    /\ worm_terrain = "none"
    /\ counter = 0
    /\ ret = "none"
    /\ worm_calls = 0
    /\ path = <<>>
    /\ cell_index = 0
    /\ shuffled = <<>>
    /\ by_fallback = FALSE
    /\ resource_frequencies = << >>
    /\ resource_list_dict = << >>
    /\ terrain_number = 0
    /\ pc = "to_save_dict"

NextSave ==
    \/ ToSaveDict
    \/ GridInit
    \/ SetResourcesLoad

SpecSave == InitSaved /\ [][NextSave]_vars

----------------------------------------------------------------------------
(* C11: a grid constructed from a save *)

\* the record of the save whose coordinates are c
SavedRecord(c) == CHOOSE r \in Range(save_dict.cell_list) : r.coordinates = c

\* C11: a grid constructed from a save gets its cells from load_cells, not
\* from create_cells or a terrain worm (every cell carries its record and the
\* record's terrain, and no worm was called), and set_resources on it gives
\* every cell exactly the resource of its record: no number is drawn, no
\* frequency list is built and generate_terrain_features does not run (the
\* features stay the ones of the records)
C11_LoadedResources ==
    /\ (from_save /\ pc \in {"set_resources", "resources_set"}) =>
          /\ \A c \in Cells : /\ save_dicts[c] = SavedRecord(c)
                              /\ terrain[c] = SavedRecord(c).terrain
          /\ worm_calls = 0
    /\ (from_save /\ pc = "resources_set") =>
          /\ \A c \in Cells : /\ resource[c] = SavedRecord(c).resource
                              /\ terrain_features[c] = SavedRecord(c).terrain_features
          /\ terrain_number = 0
          /\ resource_list_dict = << >>
          /\ allowed_places = {}
          /\ features_before = << >>

\* set_resources has run on a loaded two-cell grid whose records hold different
\* resources, one of them with a terrain feature
C11_Witness ==
    /\ from_save
    /\ pc = "resources_set"
    /\ NumCells = 2
    /\ resource[<<0, 0>>] = "diamond"
    /\ \E c \in Cells : resource[c] = "none" /\ terrain_features[c] # {}

----------------------------------------------------------------------------
(* C15: what to_save_dict returns *)

\* C15 as stated: the dictionary holds the grid type, two further entries for
\* the width and the height of the grid, and one record per cell
C15_SaveHoldsSize ==
    pc # "to_save_dict" =>
        /\ "grid_type" \in DOMAIN save_dict
        /\ \E kw, kh \in DOMAIN save_dict \ {"grid_type", "cell_list"} : kw # kh
        /\ Len(save_dict.cell_list) = saved.coordinate_width * saved.coordinate_height

\* C15, amended: the dictionary holds exactly the grid type and the cell list,
\* and the cell list holds exactly one record for every cell of the grid; the
\* width and the height are not in it
C15_SaveContent ==
    pc # "to_save_dict" =>
        /\ DOMAIN save_dict = {"grid_type", "cell_list"}
        /\ save_dict.grid_type = grid_type
        /\ Len(save_dict.cell_list) = saved.coordinate_width * saved.coordinate_height
        /\ \A c \in (0..(saved.coordinate_width - 1)) \X (0..(saved.coordinate_height - 1)) :
              Cardinality({k \in 1..Len(save_dict.cell_list) :
                              save_dict.cell_list[k].coordinates = c}) = 1

\* a grid two cells wide has been saved
C15_Witness ==
    /\ pc = "saved"
    /\ saved.coordinate_width = 2
    /\ Len(save_dict.cell_list) = 2

----------------------------------------------------------------------------
(* C16: saving and loading *)

\* C16: the grid loaded from a save (load_cells, then set_resources) has the
\* width and the height of the saved grid and, at every position, its terrain,
\* resource, parameter values and features, in whatever order the records are
\* handed to load_cells
C16_RoundTrip ==
    (from_save /\ pc = "resources_set") =>
        /\ coordinate_width = saved.coordinate_width
        /\ coordinate_height = saved.coordinate_height
        /\ terrain = saved.terrain
        /\ resource = saved.resource
        /\ parameters = saved.parameters
        /\ terrain_features = saved.terrain_features

\* a loaded grid of two cells that differ in terrain, resource, parameter and features
C16_Witness ==
    /\ from_save
    /\ pc = "resources_set"
    /\ NumCells = 2
    /\ \E c, d \in Cells :
          /\ terrain[c] # terrain[d]
          /\ resource[c] # resource[d]
          /\ parameters[c] # parameters[d]
          /\ terrain_features[c] # terrain_features[d]

----------------------------------------------------------------------------
(* Specification: generate_terrain_features on a grid whose cells may hold
   features already *)

\* largest coordinate_width * coordinate_height of a grid whose features are generated
MaxFeatArea == 2

\* the entries a cell can hold beforehand: as generate_terrain_features writes
\* them, or with an image_id of their own
PriorFeatureEntries ==
    FeatureEntries
    \cup {<<f, [feature_type |-> f, image_id |-> "label"]>> : f \in FeatureTypes}

\* the terrain_features dictionaries of those entries: one entry per key at most
PriorFeatures ==
    {d \in SUBSET PriorFeatureEntries : \A e1, e2 \in d : e1[1] = e2[1] => e1 = e2}

GenerateTerrainFeatures ==
    /\ pc = "generate_terrain_features"
    /\ \E allowed \in SUBSET (FeatureTypes \X Cells) :
          /\ terrain_features' = PlaceFeatures(terrain_features, allowed)
          /\ allowed_places' = allowed
    /\ features_before' = terrain_features
    /\ pc' = "features_generated"
    /\ UNCHANGED <<coordinate_width, coordinate_height, is_abstract_grid, from_save,
                   enable_oceans, terrain_list, terrain, resource>>
    /\ UNCHANGED <<genVars, wormVars, passVars, resVars, saveVars, callVars>>
    /\ UNCHANGED <<error, before>>
    /\ UNCHANGED extVars

InitFeatures ==
    /\ \E w \in 1..MaxFeatArea, h \in 1..MaxFeatArea :
          /\ w * h <= MaxFeatArea
          /\ coordinate_width = w
          /\ coordinate_height = h
          /\ resource = [c \in (0..(w - 1)) \X (0..(h - 1)) |-> "none"]
          /\ terrain_features \in [(0..(w - 1)) \X (0..(h - 1)) -> PriorFeatures]
          /\ terrain \in [(0..(w - 1)) \X (0..(h - 1)) -> Range(BaseTerrainList)]
          /\ before = << >>
    /\ is_abstract_grid = FALSE
    /\ from_save = FALSE
    /\ enable_oceans = FALSE
    /\ terrain_list = BaseTerrainList
    /\ InitLocals
    /\ pc = "generate_terrain_features"

NextFeatures == GenerateTerrainFeatures

SpecFeatures == InitFeatures /\ [][NextFeatures]_vars

----------------------------------------------------------------------------
(* C12: generate_terrain_features *)

\* the entries of feature type f in the terrain_features dictionary d
EntriesOf(d, f) == {e \in d : e[1] = f}

\* C12: after generate_terrain_features, a cell whose allow_place held for
\* feature type f maps f to the entry that holds just feature_type f; a cell
\* whose allow_place did not hold has the entry of f it had before (or none);
\* and no key a cell had before is missing afterwards
C12_FeaturesPlaced ==
    pc = "features_generated" =>
        \A c \in Cells :
            /\ \A f \in FeatureTypes :
                  IF <<f, c>> \in allowed_places
                  THEN EntriesOf(terrain_features[c], f) = {<<f, [feature_type |-> f]>>}
                  ELSE EntriesOf(terrain_features[c], f) = EntriesOf(features_before[c], f)
            /\ {e[1] : e \in features_before[c]} \subseteq {e[1] : e \in terrain_features[c]}

\* a cell that held both poles with image ids of their own was accepted for the
\* north pole and not for the south pole
C12_Witness ==
    /\ pc = "features_generated"
    /\ \E c \in Cells :
          /\ <<"north pole", c>> \in allowed_places
          /\ <<"south pole", c>> \notin allowed_places
          /\ features_before[c] =
                {<<f, [feature_type |-> f, image_id |-> "label"]>> : f \in FeatureTypes}

----------------------------------------------------------------------------
(* choose_cell *)

\* largest coordinate_width * coordinate_height of a grid a cell is chosen from
MaxChooseArea == 4

\* the string "none" choose_cell returns in place of a cell
NoneCell == <<"none">>

\* get_flat_cell_list(): the cells, x outer, y inner
get_flat_cell_list == [k \in 1..NumCells |-> FlatCell(k - 1)]

\* the filter of choose_cell with the ocean test on the cell's x instead of its y
possible_cellsFirstColumn(requirements_dict, near_buildings) ==
    LET Fits(c) ==
            /\ terrain[c] \in requirements_dict.allowed_terrains
            /\ ~((~requirements_dict.ocean_allowed) /\ c[1] = 0)
            /\ ~((~requirements_dict.nearby_buildings_allowed) /\ c \in near_buildings)
    IN  SelectSeq(get_flat_cell_list, Fits)

\* choose_cell: possible_cells, the cells the three tests let through
\* (near_buildings: the cells whose adjacent_to_buildings() is true)
possible_cells(requirements_dict, near_buildings) ==
    LET Fits(c) ==
            /\ terrain[c] \in requirements_dict.allowed_terrains
            /\ ~((~requirements_dict.ocean_allowed) /\ c[2] = 0)
            /\ ~((~requirements_dict.nearby_buildings_allowed) /\ c \in near_buildings)
    IN  SelectSeq(get_flat_cell_list, Fits)

\* choose_cell: random.choice(possible_cells), of ["none"] when no cell is possible
ChooseCell ==
    /\ pc = "choose_cell"
    /\ \E allowed_terrains \in SUBSET Range(terrain_list),
          ocean_allowed \in BOOLEAN,
          nearby_buildings_allowed \in BOOLEAN,
          near_buildings \in SUBSET Cells :
          LET requirements_dict ==
                  [allowed_terrains |-> allowed_terrains,
                   ocean_allowed |-> ocean_allowed,
                   nearby_buildings_allowed |-> nearby_buildings_allowed]
              possible == possible_cells(requirements_dict, near_buildings)
          IN  /\ call_args' = [requirements_dict |-> requirements_dict,
                               near_buildings |-> near_buildings]
              /\ call_result' \in (IF Len(possible) = 0 THEN {NoneCell} ELSE Range(possible))
    /\ pc' = "chosen"
    /\ UNCHANGED <<gridVars, genVars, wormVars, passVars, resVars, saveVars, featVars>>
    /\ UNCHANGED <<tdg_terrain_list, error, before>>
    /\ UNCHANGED extVars

\* find_cell(x, y), for coordinates inside the grid and around it
FindCell ==
    /\ pc = "find_cell"
    /\ \E x \in (-1)..MaxChooseArea, y \in (-1)..MaxChooseArea :
          /\ call_args' = [x |-> x, y |-> y]
          /\ call_result' = find_cell(x, y)
    /\ pc' = "found"
    /\ UNCHANGED <<gridVars, genVars, wormVars, passVars, resVars, saveVars, featVars>>
    /\ UNCHANGED <<tdg_terrain_list, error, before>>
    /\ UNCHANGED extVars

----------------------------------------------------------------------------
(* Specification: one query, choose_cell or find_cell, on a grid with
   generated terrain *)

InitQuery ==
    /\ \E w \in 1..MaxChooseArea, h \in 1..MaxChooseArea :
          /\ w * h <= MaxChooseArea
          /\ InitGrid(w, h, FALSE, FALSE)
          /\ terrain \in [(0..(w - 1)) \X (0..(h - 1)) -> Range(BaseTerrainList)]
          /\ before = terrain
    /\ InitLocals
    /\ pc \in {"choose_cell", "find_cell"}

NextQuery ==
    \/ ChooseCell
    \/ FindCell

SpecQuery == InitQuery /\ [][NextQuery]_vars

----------------------------------------------------------------------------
(* C13: choose_cell *)

\* cell c meets the three requirements of the call
MeetsRequirements(c) ==
    /\ terrain[c] \in call_args.requirements_dict.allowed_terrains
    /\ call_args.requirements_dict.ocean_allowed \/ c[2] # 0
    /\ call_args.requirements_dict.nearby_buildings_allowed \/ c \notin call_args.near_buildings

\* C13: choose_cell returns "none" exactly when no cell meets the three
\* requirements, and otherwise a cell that meets them all; it raises nothing
\* and leaves terrain, resource and features of every cell as they were
C13_ChosenCell ==
    pc = "chosen" =>
        /\ call_result = NoneCell <=> ~(\E c \in Cells : MeetsRequirements(c))
        /\ call_result # NoneCell => (call_result \in Cells /\ MeetsRequirements(call_result))
        /\ error = "none"
        /\ terrain = before
        /\ \A c \in Cells : resource[c] = "none" /\ terrain_features[c] = {}

\* a cell off row 0 and away from buildings was chosen under requirements that
\* rule out row 0 and the cells near buildings, on a grid holding cells of both kinds
C13_Witness ==
    /\ pc = "chosen"
    /\ call_result \in Cells
    /\ ~call_args.requirements_dict.ocean_allowed
    /\ ~call_args.requirements_dict.nearby_buildings_allowed
    /\ \E c \in call_args.near_buildings : c[2] # 0 /\ terrain[c] = terrain[call_result]
    /\ \E c \in Cells : terrain[c] \notin call_args.requirements_dict.allowed_terrains

----------------------------------------------------------------------------
(* C14: find_cell *)

\* C14: find_cell(x, y) returns None exactly when x is outside
\* 0 .. coordinate_width - 1 or y is outside 0 .. coordinate_height - 1 (the
\* coordinates are not wrapped), and otherwise the cell of the grid whose
\* coordinates are (x, y)
C14_FindCell ==
    pc = "found" =>
        LET inside == /\ 0 <= call_args.x /\ call_args.x < coordinate_width
                      /\ 0 <= call_args.y /\ call_args.y < coordinate_height
        IN  /\ call_result = None <=> ~inside
            /\ inside => (call_result \in Cells /\ call_result = <<call_args.x, call_args.y>>)

\* find_cell was asked for the column just right of a grid with more than one
\* column, where wrapped coordinates would name a cell
C14_Witness ==
    /\ pc = "found"
    /\ coordinate_width > 1
    /\ call_args.x = coordinate_width
    /\ call_args.y = 0
    /\ call_result = None

----------------------------------------------------------------------------
(* TDG: terrain definitions and the classification of parameter tuples
   (TDG/terrains.py) *)

\* largest value of a parameter, in a terrain's range and in a parameter tuple
MaxValue == 2

\* global_manager.get('parameter_types')
parameter_types == <<"temperature", "roughness">>

\* the names of the terrains to define, in the order they are constructed
TerrainNames == <<"desert", "tundra">>

\* the string 'none' get_terrain returns in place of a terrain
NoTerrain == [none |-> "none"]

\* parameters.parameter(name, min, max)
parameter(name, min, max) == [name |-> name, min |-> min, max |-> max]

\* parameter.in_bounds(value): min <= value <= max
parameter_in_bounds(self, value) == self.min <= value /\ value <= self.max

\* terrain.__init__ that puts the new terrain at the head of terrain_list
registerFirst(list, self) == <<self>> \o list

\* terrain.__init__: global_manager.get('terrain_list').append(self)
register(list, self) == Append(list, self)

\* terrain.__init__: the terrain of input_dict, one parameter per parameter type
terrain_object(input_dict) ==
    [name |-> input_dict.name,
     parameter_dict |->
        [t \in Range(parameter_types) |->
            parameter(t, input_dict.min[t], input_dict.max[t])]]

\* terrain.in_bounds that tests the first parameter type only
in_boundsFirst(self, terrain_dict) ==
    parameter_in_bounds(self.parameter_dict[parameter_types[1]],
                        terrain_dict[parameter_types[1]])

\* terrain.in_bounds, from the k-th parameter type on: False at the first
\* parameter that is out of bounds, True when none is
RECURSIVE in_bounds_from(_, _, _)
in_bounds_from(self, terrain_dict, k) ==
    IF k > Len(parameter_types) THEN TRUE
    ELSE IF ~parameter_in_bounds(self.parameter_dict[parameter_types[k]],
                                 terrain_dict[parameter_types[k]])
         THEN FALSE
         ELSE in_bounds_from(self, terrain_dict, k + 1)

\* terrain.in_bounds(terrain_dict)
in_bounds(self, terrain_dict) == in_bounds_from(self, terrain_dict, 1)

\* utility.get_terrain, from the k-th terrain of terrain_list on: the first
\* terrain whose in_bounds accepts terrain_dict, 'none' when there is none
RECURSIVE get_terrain_from(_, _, _)
get_terrain_from(list, terrain_dict, k) ==
    IF k > Len(list) THEN NoTerrain
    ELSE IF in_bounds(list[k], terrain_dict) THEN list[k]
         ELSE get_terrain_from(list, terrain_dict, k + 1)

\* utility.get_terrain(terrain_dict, global_manager)
get_terrain(terrain_dict) == get_terrain_from(tdg_terrain_list, terrain_dict, 1)

\* the parameter tuples a caller can pass
TerrainDicts == [Range(parameter_types) -> 1..MaxValue]

\* terrain(input_dict, global_manager) for the next name of TerrainNames, with
\* a range min <= max for every parameter type
TerrainInit ==
    /\ pc \in {"tdg", "terrain", "in_bounds", "get_terrain"}
    /\ Len(tdg_terrain_list) < Len(TerrainNames)
    /\ \E min \in TerrainDicts, max \in TerrainDicts :
          /\ \A t \in Range(parameter_types) : min[t] <= max[t]
          /\ tdg_terrain_list' =
              register(tdg_terrain_list,
                       terrain_object([name |-> TerrainNames[Len(tdg_terrain_list) + 1],
                                       min |-> min, max |-> max]))
    /\ pc' = "terrain"
    /\ UNCHANGED <<gridVars, genVars, wormVars, passVars, resVars, saveVars, featVars>>
    /\ UNCHANGED <<call_args, call_result, error, before>>
    /\ UNCHANGED extVars

\* terrain_list[k].in_bounds(terrain_dict)
TerrainInBounds ==
    /\ pc \in {"tdg", "terrain", "in_bounds", "get_terrain"}
    /\ \E k \in 1..Len(tdg_terrain_list), terrain_dict \in TerrainDicts :
          /\ call_args' = [self |-> tdg_terrain_list[k],
                           terrain_dict |-> terrain_dict,
                           terrain_list |-> tdg_terrain_list]
          /\ call_result' = in_bounds(tdg_terrain_list[k], terrain_dict)
    /\ pc' = "in_bounds"
    /\ UNCHANGED <<gridVars, genVars, wormVars, passVars, resVars, saveVars, featVars>>
    /\ UNCHANGED <<tdg_terrain_list, error, before>>
    /\ UNCHANGED extVars

\* utility.get_terrain(terrain_dict, global_manager)
GetTerrain ==
    /\ pc \in {"tdg", "terrain", "in_bounds", "get_terrain"}
    /\ \E terrain_dict \in TerrainDicts :
          /\ call_args' = [terrain_dict |-> terrain_dict,
                           terrain_list |-> tdg_terrain_list]
          /\ call_result' = get_terrain(terrain_dict)
    /\ pc' = "get_terrain"
    /\ UNCHANGED <<gridVars, genVars, wormVars, passVars, resVars, saveVars, featVars>>
    /\ UNCHANGED <<tdg_terrain_list, error, before>>
    /\ UNCHANGED extVars

----------------------------------------------------------------------------
(* Specification: terrains are defined one after the other, and parameter
   tuples are tested and classified in between *)

InitTerrains ==
    /\ InitGrid(1, 1, FALSE, FALSE)
    /\ terrain = [c \in {<<0, 0>>} |-> "none"]
    /\ before = << >>
    /\ InitLocals
    /\ pc = "tdg"

NextTerrains ==
    \/ TerrainInit
    \/ TerrainInBounds
    \/ GetTerrain

SpecTerrains == InitTerrains /\ [][NextTerrains]_vars

----------------------------------------------------------------------------
(* C17: terrain.in_bounds *)

\* every value of terrain_dict lies in the range self has for its parameter type
AllInRange(self, terrain_dict) ==
    \A t \in Range(parameter_types) :
        /\ self.parameter_dict[t].min <= terrain_dict[t]
        /\ terrain_dict[t] <= self.parameter_dict[t].max

\* C17: in_bounds returns True exactly when every value of the tuple lies in
\* the terrain's inclusive [min, max] range of its parameter type (so the result
\* is a function of terrain and tuple, the same at every call), and the call
\* leaves the terrain and the terrain list as they were
C17_InBounds ==
    pc = "in_bounds" =>
        /\ call_result = AllInRange(call_args.self, call_args.terrain_dict)
        /\ tdg_terrain_list = call_args.terrain_list
        /\ call_args.self \in Range(tdg_terrain_list)

\* in_bounds was called with a tuple whose first value sits on the lower end of
\* its range and whose second value is above its range
C17_Witness ==
    /\ pc = "in_bounds"
    /\ call_result = FALSE
    /\ call_args.self.parameter_dict["temperature"].min = call_args.terrain_dict["temperature"]
    /\ call_args.self.parameter_dict["roughness"].max < call_args.terrain_dict["roughness"]

----------------------------------------------------------------------------
(* C18: classification *)

\* the positions in TerrainNames of the defined terrains that accept terrain_dict
Accepting(terrain_dict) ==
    {j \in 1..Len(TerrainNames) :
        \E t \in Range(tdg_terrain_list) :
            t.name = TerrainNames[j] /\ AllInRange(t, terrain_dict)}

\* C18: get_terrain returns the accepting terrain that was defined first, also
\* when several terrains accept the tuple, and 'none', without an exception,
\* when no defined terrain accepts it
C18_FirstRegistered ==
    pc = "get_terrain" =>
        /\ error = "none"
        /\ IF Accepting(call_args.terrain_dict) = {}
           THEN call_result = NoTerrain
           ELSE /\ call_result \in Range(tdg_terrain_list)
                /\ call_result.name \in {TerrainNames[j] : j \in Accepting(call_args.terrain_dict)}
                /\ \A j \in Accepting(call_args.terrain_dict) :
                      \E k \in 1..j : call_result.name = TerrainNames[k]

\* two terrains with different ranges accept the tuple, and the first defined is returned
C18_Witness ==
    /\ pc = "get_terrain"
    /\ Cardinality(Accepting(call_args.terrain_dict)) = 2
    /\ tdg_terrain_list[1].parameter_dict # tdg_terrain_list[2].parameter_dict
    /\ call_result = tdg_terrain_list[1]
    /\ call_result.name = TerrainNames[1]

----------------------------------------------------------------------------
(* C19: the allowed terrain list *)

\* C19: constants.terrain_list has the elements and the length it had before
\* generate_terrain was called, with enable_oceans active or not
C19_TerrainListUnchanged ==
    /\ Len(terrain_list) = Len(BaseTerrainList)
    /\ Range(terrain_list) = Range(BaseTerrainList)

----------------------------------------------------------------------------
(* C20: adjacency *)

\* the four cardinal offsets
CardinalOffsets == {<<0, 1>>, <<0, -1>>, <<1, 0>>, <<-1, 0>>}

\* C20: the neighbours of the cell at (x, y) are the cells at
\* ((x + dx) mod coordinate_width, (y + dy) mod coordinate_height) for the four
\* cardinal offsets; so (0, 0) has the neighbours (coordinate_width - 1, 0) and
\* (0, coordinate_height - 1), every neighbour is a cell of the grid, a cell is
\* a neighbour of each of its neighbours, and every step of a terrain worm
\* leads to a neighbour
C20_ToroidalAdjacency ==
    /\ \A c \in Cells :
          /\ Range(adjacent_list(c)) =
                {<<(c[1] + d[1]) % coordinate_width, (c[2] + d[2]) % coordinate_height>> :
                    d \in CardinalOffsets}
          /\ \A n \in Range(adjacent_list(c)) :
                n \in Cells /\ c \in Range(adjacent_list(n))
          /\ \A direction \in 1..4 :
                WormMove(c[1], c[2], direction) \in Range(adjacent_list(c))
    /\ <<coordinate_width - 1, 0>> \in Range(adjacent_list(<<0, 0>>))
    /\ <<0, coordinate_height - 1>> \in Range(adjacent_list(<<0, 0>>))

\* on a grid at least three cells wide the consensus pass gave the unset cell
\* (0, 0) the terrain of (coordinate_width - 1, 0), its only neighbour with a terrain
C20_Witness ==
    /\ VisitedUnset
    /\ coordinate_width >= 3
    /\ LastVisited = <<0, 0>>
    /\ SetPositions # {}
    /\ \A k \in SetPositions : shuffled[k] = <<coordinate_width - 1, 0>>
    /\ terrain[<<0, 0>>] = before[<<coordinate_width - 1, 0>>]

----------------------------------------------------------------------------
(* mini_grid: a window on the attached grid (coordinate_width,
   coordinate_height, terrain, ... are the attached grid's) *)

\* largest coordinate_width of a grid with mini grids
MaxMainWidth == 3
\* largest coordinate_height of a grid with mini grids
MaxMainHeight == 2

\* the grid types create builds as mini grids of the strategic map grid
MiniGridTypes == <<"scrolling_strategic_map_grid", "minimap_grid">>

\* the cells of mini grid self
MiniCells(self) == (0..(self.coordinate_width - 1)) \X (0..(self.coordinate_height - 1))

\* round((n - 1) / 2)
HalfRound(n) == PyRoundDiv(n - 1, 2)

\* get_main_grid_coordinates: one "if a < 0: a += size / elif a >= size: a -= size"
WrapOnce(a, size) ==
    IF a < 0 THEN a + size
    ELSE IF a >= size THEN a - size
    ELSE a

\* get_main_grid_coordinates without the two wrap-around tests
get_main_grid_coordinatesNoWrap(self, mini_x, mini_y) ==
    <<self.center_x + mini_x - HalfRound(self.coordinate_width),
      self.center_y + mini_y - HalfRound(self.coordinate_height)>>

\* mini_grid.get_main_grid_coordinates(mini_x, mini_y)
get_main_grid_coordinates(self, mini_x, mini_y) ==
    <<WrapOnce(self.center_x + mini_x - HalfRound(self.coordinate_width),
               coordinate_width),
      WrapOnce(self.center_y + mini_y - HalfRound(self.coordinate_height),
               coordinate_height)>>

\* cell.copy(other_cell): the cell shows other_cell from then on
copy(other_cell) == other_cell

\* calibrate: "for current_cell in self.get_flat_cell_list(): ... copy(attached_cell)"
copy_cells(self) ==
    [m \in MiniCells(self) |->
        LET attached == get_main_grid_coordinates(self, m[1], m[2])
        IN  copy(find_cell(attached[1], attached[2]))]

\* calibrate: self.center_x = center_x; self.center_y = center_y
set_center(self, center_x, center_y) ==
    [self EXCEPT !.center_x = center_x, !.center_y = center_y]

\* calibrate(center_x, center_y, recursive=True): the whole nested call
calibrate_recursive(self, center_x, center_y) ==
    IF current_game_mode \in self.modes
    THEN LET centred == set_center(self, center_x, center_y)
         IN  [centred EXCEPT !.cells = copy_cells(centred)]
    ELSE self

\* the nested call fails: it copies a cell that is None
NestedFails(self, nested) ==
    /\ current_game_mode \in self.modes
    /\ \E m \in MiniCells(nested) : nested.cells[m] = None

\* calibrate without the test of the game mode
CalibrateCallAnyMode ==
    /\ pc = "calibrate"
    /\ \E k \in 1..Len(mini_grids),
          center_x \in 0..(coordinate_width - 1),
          center_y \in 0..(coordinate_height - 1) :
          /\ call_args' = [self |-> k, center_x |-> center_x, center_y |-> center_y]
          /\ mini_grids' = [mini_grids EXCEPT
                               ![k] = set_center(mini_grids[k], center_x, center_y)]
          /\ pc' = "calibrate_loop"
    /\ sibling_index' = 1
    /\ calibrate_calls' = [j \in 1..Len(mini_grids) |-> 0]
    /\ mini_before' = mini_grids
    /\ before' = terrain
    /\ UNCHANGED <<gridVars, genVars, wormVars, passVars, resVars, saveVars, featVars>>
    /\ UNCHANGED <<call_result, tdg_terrain_list, current_game_mode, error, actorVars>>

\* calibrate(center_x, center_y) on mini grid k, up to the loop over the
\* other mini grids; it returns at once when the game mode is not in self.modes
CalibrateCall ==
    /\ pc = "calibrate"
    /\ \E k \in 1..Len(mini_grids),
          center_x \in 0..(coordinate_width - 1),
          center_y \in 0..(coordinate_height - 1) :
          /\ call_args' = [self |-> k, center_x |-> center_x, center_y |-> center_y]
          /\ IF current_game_mode \in mini_grids[k].modes
             THEN /\ mini_grids' = [mini_grids EXCEPT
                                       ![k] = set_center(mini_grids[k], center_x, center_y)]
                  /\ pc' = "calibrate_loop"
             ELSE /\ mini_grids' = mini_grids
                  /\ pc' = "calibrated"
    /\ sibling_index' = 1
    /\ calibrate_calls' = [j \in 1..Len(mini_grids) |-> 0]
    /\ mini_before' = mini_grids
    /\ before' = terrain
    /\ UNCHANGED <<gridVars, genVars, wormVars, passVars, resVars, saveVars, featVars>>
    /\ UNCHANGED <<call_result, tdg_terrain_list, current_game_mode, error, actorVars>>

\* calibrate that calls the nested calibrate on itself as well
CalibrateSiblingSelf ==
    /\ pc = "calibrate_loop"
    /\ sibling_index <= Len(mini_grids)
    /\ LET nested == calibrate_recursive(mini_grids[sibling_index],
                                         call_args.center_x, call_args.center_y)
       IN  /\ mini_grids' = [mini_grids EXCEPT ![sibling_index] = nested]
           /\ calibrate_calls' = [calibrate_calls EXCEPT ![sibling_index] = @ + 1]
           /\ IF NestedFails(mini_grids[sibling_index], nested)
              THEN error' = "AttributeError" /\ pc' = "error"
              ELSE UNCHANGED <<error, pc>>
    /\ sibling_index' = sibling_index + 1
    /\ UNCHANGED <<gridVars, genVars, wormVars, passVars, resVars, saveVars, featVars>>
    /\ UNCHANGED <<callVars, current_game_mode, mini_before, before, actorVars>>

\* calibrate: one iteration of "for mini_grid in self.attached_grid.mini_grids"
CalibrateSibling ==
    /\ pc = "calibrate_loop"
    /\ sibling_index <= Len(mini_grids)
    /\ IF sibling_index # call_args.self
       THEN LET nested == calibrate_recursive(mini_grids[sibling_index],
                                              call_args.center_x, call_args.center_y)
            IN  /\ mini_grids' = [mini_grids EXCEPT ![sibling_index] = nested]
                /\ calibrate_calls' = [calibrate_calls EXCEPT ![sibling_index] = @ + 1]
                /\ IF NestedFails(mini_grids[sibling_index], nested)
                   THEN error' = "AttributeError" /\ pc' = "error"
                   ELSE UNCHANGED <<error, pc>>
       ELSE UNCHANGED <<mini_grids, calibrate_calls, error, pc>>
    /\ sibling_index' = sibling_index + 1
    /\ UNCHANGED <<gridVars, genVars, wormVars, passVars, resVars, saveVars, featVars>>
    /\ UNCHANGED <<callVars, current_game_mode, mini_before, before, actorVars>>

\* calibrate after the loop: the tile display is set to the centre cell's tile
\* and the cells of the mini grid copy their attached cells
CalibrateCells ==
    /\ pc = "calibrate_loop"
    /\ sibling_index > Len(mini_grids)
    /\ LET self == mini_grids[call_args.self]
           copied == [self EXCEPT !.cells = copy_cells(self)]
       IN  IF \/ find_cell(self.center_x, self.center_y) = None
              \/ \E m \in MiniCells(copied) : copied.cells[m] = None
           THEN /\ error' = "AttributeError"
                /\ pc' = "error"
                /\ UNCHANGED mini_grids
           ELSE /\ mini_grids' = [mini_grids EXCEPT ![call_args.self] = copied]
                /\ pc' = "calibrated"
                /\ UNCHANGED error
    /\ UNCHANGED <<gridVars, genVars, wormVars, passVars, resVars, saveVars, featVars>>
    /\ UNCHANGED <<callVars, current_game_mode, sibling_index, calibrate_calls,
                   mini_before, before, actorVars>>

----------------------------------------------------------------------------
(* Specification: one calibrate call on one of the two mini grids of a grid *)

\* mini_grid.__init__: centre (0, 0), cells that show nothing yet
mini_grid(type, width, height, modes) ==
    [grid_type |-> type,
     coordinate_width |-> width,
     coordinate_height |-> height,
     modes |-> modes,
     center_x |-> 0,
     center_y |-> 0,
     cells |-> [m \in (0..(width - 1)) \X (0..(height - 1)) |-> None]]

InitCalibrate ==
    /\ \E w \in 1..MaxMainWidth, h \in 1..MaxMainHeight :
          /\ InitGrid(w, h, FALSE, FALSE)
          /\ terrain = [c \in (0..(w - 1)) \X (0..(h - 1)) |-> "savannah"]
          /\ before = << >>
          /\ \E w1 \in 1..w, h1 \in 1..h, w2 \in 1..w, h2 \in 1..h,
                modes1 \in {{"strategic"}, {"earth"}},
                modes2 \in {{"strategic"}, {"earth"}} :
                mini_grids = << mini_grid(MiniGridTypes[1], w1, h1, modes1),
                                mini_grid(MiniGridTypes[2], w2, h2, modes2) >>
    /\ current_game_mode = "strategic"
    /\ sibling_index = 0
    /\ calibrate_calls = << >>
    /\ mini_before = << >>
    /\ InitActors
    /\ InitGridLocals
    /\ pc = "calibrate"

NextCalibrate ==
    \/ CalibrateCall
    \/ CalibrateSibling
    \/ CalibrateCells

SpecCalibrate == InitCalibrate /\ [][NextCalibrate]_vars

\* a running calibrate goes on until it returns
SpecCalibrateFair ==
    SpecCalibrate /\ WF_vars(CalibrateSibling \/ CalibrateCells)

----------------------------------------------------------------------------
(* Claims about mini_grid.calibrate *)

\* the mini grid calibrate was called on
CalibratedGrid == mini_grids[call_args.self]

\* calibrate has returned from a call on a mini grid shown in the game mode
CalibrateDone ==
    /\ pc = "calibrated"
    /\ current_game_mode \in CalibratedGrid.modes

\* C21: after calibrate(cx, cy) on a mini grid shown in the game mode and no
\* larger than its attached grid, mini cell (mx, my) is a copy of attached cell
\* ((cx + mx - round((w-1)/2)) mod W, (cy + my - round((h-1)/2)) mod H);
\* get_main_grid_coordinates is in range, find_cell is never None, and mini
\* cell (round((w-1)/2), round((h-1)/2)) shows (cx, cy)
C21_WindowCopies ==
    /\ pc # "error"
    /\ CalibrateDone =>
          LET self == CalibratedGrid
              off_x == HalfRound(self.coordinate_width)
              off_y == HalfRound(self.coordinate_height)
          IN  /\ \A m \in MiniCells(self) :
                    LET main == get_main_grid_coordinates(self, m[1], m[2])
                    IN  /\ main[1] \in 0..(coordinate_width - 1)
                        /\ main[2] \in 0..(coordinate_height - 1)
                        /\ find_cell(main[1], main[2]) # None
                        /\ self.cells[m] =
                              <<(call_args.center_x + m[1] - off_x) % coordinate_width,
                                (call_args.center_y + m[2] - off_y) % coordinate_height>>
              /\ <<off_x, off_y>> \in MiniCells(self)
              /\ self.cells[<<off_x, off_y>>] = <<call_args.center_x, call_args.center_y>>

\* calibrate returned from a window that wraps around the right or the left edge
C21_Witness ==
    /\ CalibrateDone
    /\ CalibratedGrid.coordinate_width >= 2
    /\ \E m \in MiniCells(CalibratedGrid) :
          LET a == call_args.center_x + m[1] - HalfRound(CalibratedGrid.coordinate_width)
          IN  a < 0 \/ a >= coordinate_width

\* C22: calibrate never writes to the attached grid, and a calibrate on a mini
\* grid whose modes do not include the game mode changes no mini grid at all
C22_CalibrateFrame ==
    [][/\ UNCHANGED <<coordinate_width, coordinate_height, terrain, resource,
                      terrain_features, parameters, terrain_list>>
       /\ (pc' = "calibrated" /\ current_game_mode \notin mini_before'[call_args'.self].modes)
             => mini_grids' = mini_before']_vars

\* calibrate returned from a mini grid not shown in the game mode, next to a
\* mini grid that is shown
C22_Witness ==
    /\ pc = "calibrated"
    /\ current_game_mode \notin CalibratedGrid.modes
    /\ \E j \in 1..Len(mini_grids) : current_game_mode \in mini_grids[j].modes
    /\ <<call_args.center_x, call_args.center_y>> # <<0, 0>>
    /\ terrain = before

\* C25: a non-recursive calibrate on a mini grid shown in the game mode
\* returns, having calibrated every other mini grid of the attached grid
\* exactly once and itself by no nested call; then every mini grid shown in
\* the game mode is centred on (cx, cy)
C25_CalibrateTerminates ==
    /\ (pc = "calibrate_loop") ~> (pc = "calibrated")
    /\ [](CalibrateDone =>
            \A j \in 1..Len(mini_grids) :
                /\ calibrate_calls[j] = (IF j = call_args.self THEN 0 ELSE 1)
                /\ current_game_mode \in mini_grids[j].modes =>
                      /\ mini_grids[j].center_x = call_args.center_x
                      /\ mini_grids[j].center_y = call_args.center_y)

\* calibrate returned and moved the other mini grid, shown as well, off (0, 0)
C25_Witness ==
    /\ CalibrateDone
    /\ \E j \in 1..Len(mini_grids) :
          /\ j # call_args.self
          /\ current_game_mode \in mini_grids[j].modes
          /\ calibrate_calls[j] = 1
          /\ <<mini_grids[j].center_x, mini_grids[j].center_y>> # <<0, 0>>

----------------------------------------------------------------------------
(* mini_grid: conversion between the coordinates of a mini grid and of its
   attached grid.  A float k / 2 is kept as the integer k. *)

\* largest coordinate_width of the attached grid in the conversions
MaxCoordWidth == 5
\* largest coordinate_height of the attached grid in the conversions
MaxCoordHeight == 3

\* int(k / 2): truncation toward zero
IntOfHalves(k) == IF k >= 0 THEN k \div 2 ELSE -((-k) \div 2)

\* mini_grid.get_mini_grid_coordinates(original_x, original_y): x adds the
\* float round(w - 1) / 2, y the integer round((h - 1) / 2)
get_mini_grid_coordinates(self, original_x, original_y) ==
    <<IntOfHalves(2 * (original_x - self.center_x) + (self.coordinate_width - 1))
         % self.coordinate_width,
      (original_y - self.center_y + HalfRound(self.coordinate_height))
         % self.coordinate_height>>

\* mini_grid.is_on_mini_grid(original_x, original_y): minimap_x and minimap_y
\* are floats, compared here as numbers of halves
is_on_mini_grid(self, original_x, original_y) ==
    LET minimap_x == (2 * (original_x - self.center_x) + (self.coordinate_width - 1))
                        % (2 * coordinate_width)
        minimap_y == (2 * (original_y - self.center_y) + (self.coordinate_height - 1))
                        % (2 * coordinate_height)
    IN  /\ minimap_x >= 0
        /\ minimap_x < 2 * self.coordinate_width
        /\ minimap_y >= 0
        /\ minimap_y < 2 * self.coordinate_height

\* self.get_main_grid_coordinates(mini_x, mini_y) on a cell of the mini grid
GetMainGridCoordinates ==
    /\ pc = "convert"
    /\ \E m \in MiniCells(mini_grids[1]) :
          /\ call_args' = [op |-> "get_main_grid_coordinates", x |-> m[1], y |-> m[2]]
          /\ call_result' = get_main_grid_coordinates(mini_grids[1], m[1], m[2])
    /\ UNCHANGED <<gridVars, genVars, wormVars, passVars, resVars, saveVars, featVars>>
    /\ UNCHANGED <<tdg_terrain_list, extVars, pc, error, before>>

\* self.get_mini_grid_coordinates(original_x, original_y) on a cell of the attached grid
GetMiniGridCoordinates ==
    /\ pc = "convert"
    /\ \E x \in 0..(coordinate_width - 1), y \in 0..(coordinate_height - 1) :
          /\ call_args' = [op |-> "get_mini_grid_coordinates", x |-> x, y |-> y]
          /\ call_result' = get_mini_grid_coordinates(mini_grids[1], x, y)
    /\ UNCHANGED <<gridVars, genVars, wormVars, passVars, resVars, saveVars, featVars>>
    /\ UNCHANGED <<tdg_terrain_list, extVars, pc, error, before>>

\* self.is_on_mini_grid(original_x, original_y) on a cell of the attached grid
IsOnMiniGrid ==
    /\ pc = "convert"
    /\ \E x \in 0..(coordinate_width - 1), y \in 0..(coordinate_height - 1) :
          /\ call_args' = [op |-> "is_on_mini_grid", x |-> x, y |-> y]
          /\ call_result' = is_on_mini_grid(mini_grids[1], x, y)
    /\ UNCHANGED <<gridVars, genVars, wormVars, passVars, resVars, saveVars, featVars>>
    /\ UNCHANGED <<tdg_terrain_list, extVars, pc, error, before>>

\* a mini grid no larger than its attached grid, calibrated on an in-range centre
InitConvert ==
    /\ current_game_mode = "strategic"
    /\ \E w \in 1..MaxCoordWidth, h \in 1..MaxCoordHeight :
          /\ InitGrid(w, h, FALSE, FALSE)
          /\ terrain = [c \in (0..(w - 1)) \X (0..(h - 1)) |-> "savannah"]
          /\ before = << >>
          /\ \E w1 \in 1..w, h1 \in 1..h, center_x \in 0..(w - 1), center_y \in 0..(h - 1) :
                mini_grids = << calibrate_recursive(
                                   mini_grid(MiniGridTypes[2], w1, h1, {"strategic"}),
                                   center_x, center_y) >>
    /\ sibling_index = 0
    /\ calibrate_calls = << >>
    /\ mini_before = << >>
    /\ InitActors
    /\ InitGridLocals
    /\ pc = "convert"

NextConvert ==
    \/ GetMainGridCoordinates
    \/ GetMiniGridCoordinates
    \/ IsOnMiniGrid

SpecConvert == InitConvert /\ [][NextConvert]_vars

----------------------------------------------------------------------------
(* Claims about the conversions *)

\* C23: get_mini_grid_coordinates(get_main_grid_coordinates(mx, my)) = (mx, my)
\* for every cell of every mini grid, every in-range centre, wrapping or not
C23_RoundTrip ==
    (call_args # << >> /\ call_args.op = "get_main_grid_coordinates") =>
        get_mini_grid_coordinates(mini_grids[1], call_result[1], call_result[2])
            = <<call_args.x, call_args.y>>

\* C24: is_on_mini_grid(x, y) is True exactly when (x, y) is
\* get_main_grid_coordinates(mx, my) of some cell (mx, my) of the mini grid
C24_OnMiniGrid ==
    (call_args # << >> /\ call_args.op = "is_on_mini_grid") =>
        (call_result <=>
            \E m \in MiniCells(mini_grids[1]) :
                get_main_grid_coordinates(mini_grids[1], m[1], m[2])
                    = <<call_args.x, call_args.y>>)

----------------------------------------------------------------------------
(* tile: inventory shared with the equivalent tiles.  A tile is named by its
   grid (0: the strategic map grid, j: its j-th mini grid) and its cell. *)

\* largest number of units of one commodity a tile starts with or is set to
MaxUnits == 2

\* constants.commodity_types
CommodityTypes == <<"consumer goods", "coffee">>

\* the tiles of the strategic map grid and of its mini grids: one per cell
TileIds ==
    {<<0, c[1], c[2]>> : c \in (0..(coordinate_width - 1)) \X (0..(coordinate_height - 1))}
    \cup UNION {{<<j, m[1], m[2]>> : m \in MiniCells(mini_grids[j])} :
                   j \in 1..Len(mini_grids)}

\* a tile as its constructor leaves it: nothing held
tile(capacity, infinite) ==
    [inventory |-> [c \in Range(CommodityTypes) |-> 0],
     inventory_capacity |-> capacity,
     infinite_inventory_capacity |-> infinite]

\* grid.find_cell(x, y) of grid number g
find_cell_on(g, x, y) ==
    IF g = 0 THEN find_cell(x, y)
    ELSE IF <<x, y>> \in MiniCells(mini_grids[g]) THEN <<x, y>>
    ELSE None

\* get_equivalent_tiles: "for mini_grid in self.grid.mini_grids", from the j-th on
RECURSIVE equivalent_from(_, _)
equivalent_from(self, j) ==
    IF j > Len(mini_grids) THEN << >>
    ELSE LET mini == get_mini_grid_coordinates(mini_grids[j], self[2], self[3])
             equivalent_cell == find_cell_on(j, mini[1], mini[2])
         IN  (IF equivalent_cell # None
              THEN << <<j, equivalent_cell[1], equivalent_cell[2]>> >>
              ELSE << >>) \o equivalent_from(self, j + 1)

\* tile.get_equivalent_tiles()
get_equivalent_tiles(self) ==
    IF self[1] = 0 THEN equivalent_from(self, 1)
    ELSE LET main == get_main_grid_coordinates(mini_grids[self[1]], self[2], self[3])
         IN  << <<0, main[1], main[2]>> >>

\* tile.set_inventory(commodity, new_value): the tiles afterwards
set_inventory(self, commodity, new_value) ==
    LET equivalent_tiles == get_equivalent_tiles(self)
    IN  [t \in DOMAIN tiles |->
            IF t = self \/ t \in Range(equivalent_tiles)
            THEN [tiles[t] EXCEPT !.inventory[commodity] = new_value]
            ELSE tiles[t]]

\* self.set_inventory(commodity, new_value) on any tile
SetInventory ==
    /\ pc = "tile"
    /\ \E self \in DOMAIN tiles, commodity \in Range(CommodityTypes),
          new_value \in 1..MaxUnits :
          /\ call_args' = [self |-> self, commodity |-> commodity, new_value |-> new_value]
          /\ call_result' = get_equivalent_tiles(self)
          /\ tiles' = set_inventory(self, commodity, new_value)
    /\ tiles_before' = tiles
    /\ pc' = "inventory_set"
    /\ UNCHANGED <<gridVars, genVars, wormVars, passVars, resVars, saveVars, featVars>>
    /\ UNCHANGED <<tdg_terrain_list, miniVars, workerVars, error, before>>
    /\ UNCHANGED <<amount_to_remove, amount_removed, commodity_types>>

\* the strategic map grid with two mini grids calibrated on one centre, a tile
\* on every cell
InitInventory ==
    /\ current_game_mode = "strategic"
    /\ \E w \in 1..MaxMainWidth, h \in 1..MaxMainHeight :
          /\ InitGrid(w, h, FALSE, FALSE)
          /\ terrain = [c \in (0..(w - 1)) \X (0..(h - 1)) |-> "savannah"]
          /\ before = << >>
          /\ \E w1 \in 1..w, h1 \in 1..h, w2 \in 1..w, h2 \in 1..h,
                center_x \in 0..(w - 1), center_y \in 0..(h - 1) :
                mini_grids =
                   << calibrate_recursive(mini_grid(MiniGridTypes[1], w1, h1, {"strategic"}),
                                          center_x, center_y),
                      calibrate_recursive(mini_grid(MiniGridTypes[2], w2, h2, {"strategic"}),
                                          center_x, center_y) >>
    /\ sibling_index = 0
    /\ calibrate_calls = << >>
    /\ mini_before = << >>
    /\ tiles = [t \in TileIds |-> tile(MaxUnits, FALSE)]
    /\ amount_to_remove = 0
    /\ amount_removed = 0
    /\ commodity_types = << >>
    /\ tiles_before = << >>
    /\ InitWorkers
    /\ InitGridLocals
    /\ pc = "tile"

NextInventory ==
    \/ SetInventory

SpecInventory == InitInventory /\ [][NextInventory]_vars

----------------------------------------------------------------------------
(* Claims about equivalent tiles *)

\* the map location tile t shows
ShownLocation(t) ==
    IF t[1] = 0 THEN <<t[2], t[3]>>
    ELSE get_main_grid_coordinates(mini_grids[t[1]], t[2], t[3])

\* C26: for a tile of the strategic map grid at (x, y), every equivalent tile
\* lies on a mini-grid cell whose get_main_grid_coordinates is (x, y), so
\* set_inventory changes the inventory only of tiles showing (x, y), and a
\* mini grid whose window does not hold (x, y) gives no equivalent tile
C26_EquivalentTiles ==
    (pc = "inventory_set" /\ call_args.self[1] = 0) =>
        LET location == <<call_args.self[2], call_args.self[3]>>
        IN  /\ \A k \in 1..Len(call_result) : ShownLocation(call_result[k]) = location
            /\ \A t \in DOMAIN tiles :
                  tiles[t] # tiles_before[t] => ShownLocation(t) = location
            /\ \A j \in 1..Len(mini_grids) :
                  (\A m \in MiniCells(mini_grids[j]) :
                       get_main_grid_coordinates(mini_grids[j], m[1], m[2]) # location)
                  => \A k \in 1..Len(call_result) : call_result[k][1] # j

----------------------------------------------------------------------------
(* tile.remove_excess_inventory on the tile call_args.self *)

\* self.get_inventory(commodity)
get_inventory(self, commodity) == tiles[self].inventory[commodity]

\* the units of the first n commodity types held in inventory
RECURSIVE inventory_sum(_, _)
inventory_sum(inventory, n) ==
    IF n = 0 THEN 0
    ELSE inventory[CommodityTypes[n]] + inventory_sum(inventory, n - 1)

\* self.get_inventory_used()
get_inventory_used(self) == inventory_sum(tiles[self].inventory, Len(CommodityTypes))

\* self.get_held_commodities(): the commodity types with at least one unit held
get_held_commodities(self) ==
    SelectSeq(CommodityTypes, LAMBDA c : get_inventory(self, c) > 0)

\* self.change_inventory(commodity, change): the tiles afterwards
change_inventory(self, commodity, change) ==
    set_inventory(self, commodity, get_inventory(self, commodity) + change)

\* remove_excess_inventory up to the loop
RemoveExcessCall ==
    /\ pc = "tile"
    /\ \E self \in DOMAIN tiles :
          /\ call_args' = [self |-> self]
          /\ IF ~tiles[self].infinite_inventory_capacity
             THEN LET inventory_used == get_inventory_used(self)
                  IN  /\ amount_to_remove' = inventory_used - tiles[self].inventory_capacity
                      /\ IF amount_to_remove' > 0
                         THEN /\ commodity_types' = get_held_commodities(self)
                              /\ pc' = "remove_loop"
                         ELSE /\ UNCHANGED commodity_types
                              /\ pc' = "removed"
             ELSE /\ UNCHANGED <<amount_to_remove, commodity_types>>
                  /\ pc' = "removed"
    /\ amount_removed' = 0
    /\ tiles_before' = tiles
    /\ UNCHANGED <<gridVars, genVars, wormVars, passVars, resVars, saveVars, featVars>>
    /\ UNCHANGED <<call_result, tdg_terrain_list, miniVars, workerVars, error, before, tiles>>

\* one iteration of the loop that removes a unit of the drawn commodity even
\* when none is held
RemoveExcessStepAny ==
    /\ pc = "remove_loop"
    /\ amount_removed < amount_to_remove
    /\ \E k \in 1..Len(commodity_types) :
          LET commodity_removed == commodity_types[k]
          IN  /\ tiles' = change_inventory(call_args.self, commodity_removed, -1)
              /\ amount_removed' = amount_removed + 1
              /\ call_result' = commodity_removed
    /\ UNCHANGED <<gridVars, genVars, wormVars, passVars, resVars, saveVars, featVars>>
    /\ UNCHANGED <<call_args, tdg_terrain_list, miniVars, workerVars, error, before, pc>>
    /\ UNCHANGED <<amount_to_remove, commodity_types, tiles_before>>

\* one iteration of "while amount_removed < amount_to_remove": a commodity is
\* drawn with random.choice and a unit of it removed if one is held
RemoveExcessStep ==
    /\ pc = "remove_loop"
    /\ amount_removed < amount_to_remove
    /\ \E k \in 1..Len(commodity_types) :
          LET commodity_removed == commodity_types[k]
          IN  IF get_inventory(call_args.self, commodity_removed) > 0
              THEN /\ tiles' = change_inventory(call_args.self, commodity_removed, -1)
                   /\ amount_removed' = amount_removed + 1
                   /\ call_result' = commodity_removed
              ELSE UNCHANGED <<tiles, amount_removed, call_result>>
    /\ UNCHANGED <<gridVars, genVars, wormVars, passVars, resVars, saveVars, featVars>>
    /\ UNCHANGED <<call_args, tdg_terrain_list, miniVars, workerVars, error, before, pc>>
    /\ UNCHANGED <<amount_to_remove, commodity_types, tiles_before>>

\* the loop ends: remove_excess_inventory returns
RemoveExcessReturn ==
    /\ pc = "remove_loop"
    /\ amount_removed >= amount_to_remove
    /\ pc' = "removed"
    /\ UNCHANGED <<gridVars, genVars, wormVars, passVars, resVars, saveVars, featVars>>
    /\ UNCHANGED <<callVars, extVars, error, before>>

\* a tile on a 1 x 1 grid, alone or with an equivalent tile on a mini grid,
\* holding up to MaxUnits units of each commodity
InitExcess ==
    /\ current_game_mode = "strategic"
    /\ InitGrid(1, 1, FALSE, FALSE)
    /\ terrain = [c \in {<<0, 0>>} |-> "savannah"]
    /\ before = << >>
    /\ mini_grids \in {<< >>,
                       << calibrate_recursive(mini_grid(MiniGridTypes[2], 1, 1, {"strategic"}),
                                              0, 0) >>}
    /\ sibling_index = 0
    /\ calibrate_calls = << >>
    /\ mini_before = << >>
    /\ \E inventory \in [Range(CommodityTypes) -> 0..MaxUnits],
          capacity \in 0..(MaxUnits + 1), infinite \in BOOLEAN :
          tiles = [t \in TileIds |->
                      [inventory |-> inventory,
                       inventory_capacity |-> capacity,
                       infinite_inventory_capacity |-> infinite]]
    /\ amount_to_remove = 0
    /\ amount_removed = 0
    /\ commodity_types = << >>
    /\ tiles_before = << >>
    /\ InitWorkers
    /\ InitGridLocals
    /\ pc = "tile"

NextExcess ==
    \/ RemoveExcessCall
    \/ RemoveExcessStep
    \/ RemoveExcessReturn

SpecExcess == InitExcess /\ [][NextExcess]_vars

\* the random draws are fair: the loop does not draw commodities with no unit
\* left for ever
SpecExcessFair ==
    SpecExcess /\ WF_vars(RemoveExcessStep \/ RemoveExcessReturn)

----------------------------------------------------------------------------
(* C27: remove_excess_inventory *)

\* the smaller of two numbers
Min(a, b) == IF a <= b THEN a ELSE b

\* the units tile t held when remove_excess_inventory was called
UsedBefore(t) == inventory_sum(tiles_before[t].inventory, Len(CommodityTypes))

\* C27: remove_excess_inventory terminates; on a tile without infinite
\* capacity it ends with min(used before, capacity) units held, having removed
\* max(0, used - capacity) units one per iteration; no commodity goes below
\* zero; a tile that fits or has infinite capacity is left unchanged
C27_ExcessRemoved ==
    /\ (pc = "remove_loop") ~> (pc = "removed")
    /\ [](pc \in {"remove_loop", "removed"} =>
            LET self == call_args.self
            IN  /\ \A c \in Range(CommodityTypes) : get_inventory(self, c) >= 0
                /\ get_inventory_used(self) = UsedBefore(self) - amount_removed
                /\ pc = "removed" =>
                      IF tiles_before[self].infinite_inventory_capacity
                         \/ UsedBefore(self) <= tiles_before[self].inventory_capacity
                      THEN tiles = tiles_before
                      ELSE /\ get_inventory_used(self) =
                                 Min(UsedBefore(self), tiles[self].inventory_capacity)
                           /\ amount_removed =
                                 UsedBefore(self) - tiles[self].inventory_capacity)
    /\ [][amount_removed' \in {0, amount_removed, amount_removed + 1}]_vars

\* remove_excess_inventory returned after removing two units or more, one
\* commodity having run out on the way
C27_Witness ==
    /\ pc = "removed"
    /\ amount_removed >= 2
    /\ get_inventory_used(call_args.self) = tiles[call_args.self].inventory_capacity
    /\ \E c \in Range(commodity_types) : get_inventory(call_args.self, c) = 0

----------------------------------------------------------------------------
(* worker: crew_vehicle, uncrew_vehicle, join_group, leave_group on one worker,
   one vehicle and one group.  Mobs are named by strings; the images of the
   vehicle are given by the cells they occupy ("none" for an image in no cell). *)

\* largest number of other mobs in a cell of the vehicle
MaxOtherMobs == 2

\* the names of the other mobs a cell can contain
OtherMobNames == <<"mob_a", "mob_b", "mob_c", "mob_d">>

\* the other mobs within the bound
OtherMobs == {OtherMobNames[k] : k \in 1..MaxOtherMobs}

\* the cells of the two grids the vehicle has an image on
ImageCells == <<"strategic_cell", "minimap_cell">>

\* the sequences without repetition of elements of S
RECURSIVE Arrangements(_)
Arrangements(S) ==
    {<< >>} \cup UNION {{<<e>> \o a : a \in Arrangements(S \ {e})} : e \in S}

\* mob.remove_from_turn_queue()
remove_from_turn_queue(queue, mob) == SelectSeq(queue, LAMBDA m : m # mob)

\* mob.add_to_turn_queue()
add_to_turn_queue(queue, mob) ==
    IF mob \in Range(queue) THEN queue ELSE Append(queue, mob)

\* contained_mobs.append(contained_mobs.pop(0))
RotateOnce(list) == Append(Tail(list), Head(list))

\* the callers' conditions: crew a vehicle without crew with a free worker,
\* uncrew the vehicle the worker crews, join when free, leave when in a group
InProtocol(op) ==
    CASE op = "crew_vehicle" ->
            ~worker.in_vehicle /\ ~worker.in_group /\ vehicle.crew = "none"
      [] op = "uncrew_vehicle" ->
            worker.in_vehicle /\ ~worker.in_group /\ vehicle.crew = "worker"
      [] op = "join_group" -> ~worker.in_vehicle /\ ~worker.in_group
      [] op = "leave_group" -> ~worker.in_vehicle /\ worker.in_group

\* crew_vehicle(vehicle) up to the loop over the vehicle's images
CrewVehicleCall ==
    /\ pc = "idle"
    /\ call_args' = [op |-> "crew_vehicle"]
    /\ in_protocol' = (in_protocol /\ InProtocol("crew_vehicle"))
    /\ worker' = [worker EXCEPT !.in_vehicle = TRUE]
    /\ vehicle' = [vehicle EXCEPT !.crew = "worker"]
    /\ image_index' = 1
    /\ contained_before' = contained_mobs
    /\ pc' = "crew_loop"
    /\ UNCHANGED <<gridVars, genVars, wormVars, passVars, resVars, saveVars, featVars>>
    /\ UNCHANGED <<call_result, tdg_terrain_list, miniVars, tileVars, error, before>>
    /\ UNCHANGED <<group, player_turn_queue, contained_mobs, worker_types, mob_list,
                   recruit_log>>

\* an iteration of the while loop that pops the first mob and does not append it
CrewRotateDrop ==
    /\ pc = "crew_loop"
    /\ image_index <= Len(vehicle.images)
    /\ vehicle.images[image_index] # "none"
    /\ LET current_cell == vehicle.images[image_index]
       IN  IF contained_mobs[current_cell] = << >>
           THEN /\ error' = "IndexError"
                /\ pc' = "error"
                /\ UNCHANGED contained_mobs
           ELSE /\ contained_mobs[current_cell][1] # "vehicle"
                /\ contained_mobs' = [contained_mobs EXCEPT
                                         ![current_cell] = Tail(contained_mobs[current_cell])]
                /\ UNCHANGED <<error, pc>>
    /\ UNCHANGED <<gridVars, genVars, wormVars, passVars, resVars, saveVars, featVars>>
    /\ UNCHANGED <<callVars, miniVars, tileVars, before>>
    /\ UNCHANGED <<worker, vehicle, group, player_turn_queue, image_index, contained_before,
                   in_protocol, worker_types, mob_list, recruit_log>>

\* one iteration of "while not moved_mob == contained_mobs[0]" for the current
\* image; contained_mobs[0] of an empty list raises IndexError
CrewRotate ==
    /\ pc = "crew_loop"
    /\ image_index <= Len(vehicle.images)
    /\ vehicle.images[image_index] # "none"
    /\ LET current_cell == vehicle.images[image_index]
       IN  IF contained_mobs[current_cell] = << >>
           THEN /\ error' = "IndexError"
                /\ pc' = "error"
                /\ UNCHANGED contained_mobs
           ELSE /\ contained_mobs[current_cell][1] # "vehicle"
                /\ contained_mobs' = [contained_mobs EXCEPT
                                         ![current_cell] = RotateOnce(contained_mobs[current_cell])]
                /\ UNCHANGED <<error, pc>>
    /\ UNCHANGED <<gridVars, genVars, wormVars, passVars, resVars, saveVars, featVars>>
    /\ UNCHANGED <<callVars, miniVars, tileVars, before>>
    /\ UNCHANGED <<worker, vehicle, group, player_turn_queue, image_index, contained_before,
                   in_protocol, worker_types, mob_list, recruit_log>>

\* the loop goes on to the next image: the image is in no cell, or the vehicle
\* is the first mob of its cell
CrewNextImage ==
    /\ pc = "crew_loop"
    /\ image_index <= Len(vehicle.images)
    /\ \/ vehicle.images[image_index] = "none"
       \/ /\ vehicle.images[image_index] # "none"
          /\ contained_mobs[vehicle.images[image_index]] # << >>
          /\ contained_mobs[vehicle.images[image_index]][1] = "vehicle"
    /\ image_index' = image_index + 1
    /\ UNCHANGED <<gridVars, genVars, wormVars, passVars, resVars, saveVars, featVars>>
    /\ UNCHANGED <<callVars, miniVars, tileVars, pc, error, before>>
    /\ UNCHANGED <<worker, vehicle, group, player_turn_queue, contained_mobs,
                   contained_before, in_protocol, worker_types, mob_list, recruit_log>>

\* crew_vehicle after the loop: the worker leaves the turn queue, the vehicle enters it
CrewVehicleReturn ==
    /\ pc = "crew_loop"
    /\ image_index > Len(vehicle.images)
    /\ player_turn_queue' =
          add_to_turn_queue(remove_from_turn_queue(player_turn_queue, "worker"), "vehicle")
    /\ pc' = "idle"
    /\ UNCHANGED <<gridVars, genVars, wormVars, passVars, resVars, saveVars, featVars>>
    /\ UNCHANGED <<callVars, miniVars, tileVars, error, before>>
    /\ UNCHANGED <<worker, vehicle, group, contained_mobs, image_index, contained_before,
                   in_protocol, worker_types, mob_list, recruit_log>>

\* uncrew_vehicle(vehicle)
UncrewVehicle ==
    /\ pc = "idle"
    /\ call_args' = [op |-> "uncrew_vehicle"]
    /\ in_protocol' = (in_protocol /\ InProtocol("uncrew_vehicle"))
    /\ worker' = [worker EXCEPT !.in_vehicle = FALSE, !.x = vehicle.x, !.y = vehicle.y]
    /\ vehicle' = [vehicle EXCEPT !.crew = "none", !.end_turn_destination = "none"]
    /\ player_turn_queue' =
          add_to_turn_queue(remove_from_turn_queue(player_turn_queue, "vehicle"), "worker")
    /\ UNCHANGED <<gridVars, genVars, wormVars, passVars, resVars, saveVars, featVars>>
    /\ UNCHANGED <<call_result, tdg_terrain_list, miniVars, tileVars, pc, error, before>>
    /\ UNCHANGED <<group, contained_mobs, image_index, contained_before, worker_types,
                   mob_list, recruit_log>>

\* join_group() that leaves the worker in the turn queue
JoinGroupQueued ==
    /\ pc = "idle"
    /\ call_args' = [op |-> "join_group"]
    /\ in_protocol' = (in_protocol /\ InProtocol("join_group"))
    /\ worker' = [worker EXCEPT !.in_group = TRUE]
    /\ UNCHANGED <<gridVars, genVars, wormVars, passVars, resVars, saveVars, featVars>>
    /\ UNCHANGED <<call_result, tdg_terrain_list, miniVars, tileVars, pc, error, before>>
    /\ UNCHANGED <<vehicle, group, contained_mobs, image_index, contained_before,
                   worker_types, mob_list, recruit_log, player_turn_queue>>

\* join_group()
JoinGroup ==
    /\ pc = "idle"
    /\ call_args' = [op |-> "join_group"]
    /\ in_protocol' = (in_protocol /\ InProtocol("join_group"))
    /\ worker' = [worker EXCEPT !.in_group = TRUE]
    /\ player_turn_queue' = remove_from_turn_queue(player_turn_queue, "worker")
    /\ UNCHANGED <<gridVars, genVars, wormVars, passVars, resVars, saveVars, featVars>>
    /\ UNCHANGED <<call_result, tdg_terrain_list, miniVars, tileVars, pc, error, before>>
    /\ UNCHANGED <<vehicle, group, contained_mobs, image_index, contained_before,
                   worker_types, mob_list, recruit_log>>

\* leave_group(group)
LeaveGroup ==
    /\ pc = "idle"
    /\ call_args' = [op |-> "leave_group"]
    /\ in_protocol' = (in_protocol /\ InProtocol("leave_group"))
    /\ worker' = [worker EXCEPT !.in_group = FALSE, !.x = group.x, !.y = group.y]
    /\ player_turn_queue' =
          IF worker.movement_points > 0
          THEN add_to_turn_queue(player_turn_queue, "worker")
          ELSE player_turn_queue
    /\ UNCHANGED <<gridVars, genVars, wormVars, passVars, resVars, saveVars, featVars>>
    /\ UNCHANGED <<call_result, tdg_terrain_list, miniVars, tileVars, pc, error, before>>
    /\ UNCHANGED <<vehicle, group, contained_mobs, image_index, contained_before,
                   worker_types, mob_list, recruit_log>>

\* a free worker, a vehicle without crew with an image on the strategic map
\* and one on the minimap (there in no cell, or in a cell with the same mobs),
\* and a group
InitCrew ==
    /\ InitGrid(2, 1, FALSE, FALSE)
    /\ terrain = [c \in {<<0, 0>>, <<1, 0>>} |-> "savannah"]
    /\ before = << >>
    /\ InitMini
    /\ InitTiles
    /\ InitGridLocals
    /\ \E movement_points \in {0, 1} :
          worker = [in_vehicle |-> FALSE, in_group |-> FALSE, x |-> 0, y |-> 0,
                    movement_points |-> movement_points]
    /\ player_turn_queue \in {<< >>, <<"worker">>}
    /\ group = [x |-> 0, y |-> 0]
    /\ \E list \in Arrangements({"vehicle"} \cup OtherMobs), on_minimap \in BOOLEAN,
          end_turn_destination \in {"none", "(0, 0)"} :
          /\ vehicle = [crew |-> "none",
                        end_turn_destination |-> end_turn_destination,
                        x |-> 1, y |-> 0,
                        images |-> <<ImageCells[1],
                                     IF on_minimap THEN ImageCells[2] ELSE "none">>]
          /\ contained_mobs = [c \in Range(ImageCells) |-> list]
    /\ image_index = 0
    /\ contained_before = << >>
    /\ in_protocol = TRUE
    /\ worker_types = << >>
    /\ mob_list = << >>
    /\ recruit_log = << >>
    /\ pc = "idle"

NextCrew ==
    \/ CrewVehicleCall
    \/ CrewRotate
    \/ CrewNextImage
    \/ CrewVehicleReturn
    \/ UncrewVehicle
    \/ JoinGroup
    \/ LeaveGroup

SpecCrew == InitCrew /\ [][NextCrew]_vars

\* a running crew_vehicle goes on executing its loop
SpecCrewFair ==
    SpecCrew /\ WF_vars(CrewRotate \/ CrewNextImage \/ CrewVehicleReturn)

----------------------------------------------------------------------------
(* Claims about the worker's methods *)

\* between two calls: a hidden worker is out of the turn queue, and the last
\* call, if crew_vehicle or uncrew_vehicle, left the vehicle as described
WorkerConsistent ==
    /\ (worker.in_vehicle \/ worker.in_group) => "worker" \notin Range(player_turn_queue)
    /\ (call_args # << >> /\ call_args.op = "crew_vehicle") =>
          /\ vehicle.crew = "worker"
          /\ "vehicle" \in Range(player_turn_queue)
    /\ (call_args # << >> /\ call_args.op = "uncrew_vehicle") =>
          /\ vehicle.crew = "none"
          /\ vehicle.end_turn_destination = "none"
          /\ "vehicle" \notin Range(player_turn_queue)
          /\ <<worker.x, worker.y>> = <<vehicle.x, vehicle.y>>

VehicleContained ==
    \A k \in 1..Len(vehicle.images) :
        vehicle.images[k] # "none" => "vehicle" \in Range(contained_mobs[vehicle.images[k]])

\* list a is list b rotated
IsRotation(a, b) ==
    /\ Len(a) = Len(b)
    /\ \/ Len(a) = 0
       \/ \E r \in 0..(Len(a) - 1) :
             \A k \in 1..Len(a) : a[k] = b[((k - 1 + r) % Len(a)) + 1]

\* C30: the move-to-front loop of crew_vehicle ends when the vehicle is in
\* contained_mobs of each cell its images occupy; the vehicle is then first in
\* each of these lists, and each list is a rotation of what it was
C30_MoveToFront ==
    /\ (pc = "crew_loop" /\ VehicleContained) ~> (pc = "idle")
    /\ []((pc = "crew_loop" /\ VehicleContained) =>
            /\ \A c \in Range(ImageCells) : IsRotation(contained_mobs[c], contained_before[c])
            /\ \A k \in 1..(image_index - 1) :
                  vehicle.images[k] # "none" => contained_mobs[vehicle.images[k]][1] = "vehicle")
    /\ [](pc = "error" => ~VehicleContained)

\* the loop ended after rotating a list in which the vehicle was last of three
C30_Witness ==
    /\ pc = "crew_loop"
    /\ image_index > Len(vehicle.images)
    /\ vehicle.images[2] # "none"
    /\ \A c \in Range(ImageCells) :
          /\ Len(contained_before[c]) >= 3
          /\ contained_before[c][Len(contained_before[c])] = "vehicle"
          /\ contained_mobs[c][1] = "vehicle"

----------------------------------------------------------------------------
(* worker: creation and removal, counted in status.worker_types *)

\* largest number of workers created in one behaviour
MaxWorkers == 3

\* the keys of status.worker_types
WorkerTypeNames == {"European", "religious"}

\* worker.__init__ that calls on_recruit for a worker recreated from a save too
WorkerInitRecruit ==
    /\ pc = "idle"
    /\ recruit_log.created < MaxWorkers
    /\ \E worker_type \in WorkerTypeNames, save \in BOOLEAN :
          /\ call_args' = [op |-> "__init__", worker_type |-> worker_type, from_save |-> save]
          /\ worker_types' = [worker_types EXCEPT ![worker_type].number = @ + 1]
          /\ mob_list' = mob_list \cup {[id |-> recruit_log.created + 1,
                                          worker_type |-> worker_type]}
          /\ recruit_log' = [recruit_log EXCEPT
                                !.created = @ + 1,
                                !.new[worker_type] = IF save THEN @ ELSE @ + 1,
                                !.on_recruit[worker_type] = @ + 1]
    /\ UNCHANGED <<gridVars, genVars, wormVars, passVars, resVars, saveVars, featVars>>
    /\ UNCHANGED <<call_result, tdg_terrain_list, miniVars, tileVars, pc, error, before>>
    /\ UNCHANGED <<worker, vehicle, group, player_turn_queue, contained_mobs, image_index,
                   contained_before, in_protocol>>

\* worker.__init__(from_save, input_dict)
WorkerInit ==
    /\ pc = "idle"
    /\ recruit_log.created < MaxWorkers
    /\ \E worker_type \in WorkerTypeNames, save \in BOOLEAN :
          /\ call_args' = [op |-> "__init__", worker_type |-> worker_type, from_save |-> save]
          /\ worker_types' = [worker_types EXCEPT ![worker_type].number = @ + 1]
          /\ mob_list' = mob_list \cup {[id |-> recruit_log.created + 1,
                                          worker_type |-> worker_type]}
          /\ recruit_log' = [recruit_log EXCEPT
                                !.created = @ + 1,
                                !.new[worker_type] = IF save THEN @ ELSE @ + 1,
                                !.on_recruit[worker_type] = IF save THEN @ ELSE @ + 1]
    /\ UNCHANGED <<gridVars, genVars, wormVars, passVars, resVars, saveVars, featVars>>
    /\ UNCHANGED <<call_result, tdg_terrain_list, miniVars, tileVars, pc, error, before>>
    /\ UNCHANGED <<worker, vehicle, group, player_turn_queue, contained_mobs, image_index,
                   contained_before, in_protocol>>

\* worker.remove() on a worker that exists
WorkerRemove ==
    /\ pc = "idle"
    /\ \E self \in mob_list :
          /\ call_args' = [op |-> "remove", worker_type |-> self.worker_type,
                           from_save |-> FALSE]
          /\ mob_list' = mob_list \ {self}
          /\ worker_types' = [worker_types EXCEPT ![self.worker_type].number = @ - 1]
    /\ UNCHANGED <<gridVars, genVars, wormVars, passVars, resVars, saveVars, featVars>>
    /\ UNCHANGED <<call_result, tdg_terrain_list, miniVars, tileVars, pc, error, before>>
    /\ UNCHANGED <<worker, vehicle, group, player_turn_queue, contained_mobs, image_index,
                   contained_before, in_protocol, recruit_log>>

\* no worker yet, every worker type counting none
InitRecruit ==
    /\ InitGrid(1, 1, FALSE, FALSE)
    /\ terrain = [c \in {<<0, 0>>} |-> "savannah"]
    /\ before = << >>
    /\ InitMini
    /\ InitTiles
    /\ InitGridLocals
    /\ worker = << >>
    /\ vehicle = << >>
    /\ group = << >>
    /\ player_turn_queue = << >>
    /\ contained_mobs = << >>
    /\ image_index = 0
    /\ contained_before = << >>
    /\ in_protocol = TRUE
    /\ worker_types = [t \in WorkerTypeNames |-> [number |-> 0]]
    /\ mob_list = {}
    /\ recruit_log = [created |-> 0,
                      new |-> [t \in WorkerTypeNames |-> 0],
                      on_recruit |-> [t \in WorkerTypeNames |-> 0]]
    /\ pc = "idle"

NextRecruit ==
    \/ WorkerInit
    \/ WorkerRemove

SpecRecruit == InitRecruit /\ [][NextRecruit]_vars

\* C29: after any creations (new or from save) and removals,
\* status.worker_types[t].number is the number of workers of type t created
\* and not removed, never negative, and on_recruit was called once per newly
\* created worker and never for one recreated from a save
C29_WorkerCount ==
    \A t \in WorkerTypeNames :
        /\ worker_types[t].number = Cardinality({w \in mob_list : w.worker_type = t})
        /\ worker_types[t].number >= 0
        /\ recruit_log.on_recruit[t] = recruit_log.new[t]

\* a worker recreated from a save and a new one of the same type exist after
\* a third was removed
C29_Witness ==
    /\ recruit_log.created = MaxWorkers
    /\ Cardinality(mob_list) = 2
    /\ \E t \in WorkerTypeNames :
          /\ worker_types[t].number = 2
          /\ recruit_log.on_recruit[t] = 1
====
